---- MODULE Spec2Model ----
(***************************************************************************)
(* A model of go-sbv-to-srt: pkg/sbv/convert.go (the SBV parser and the    *)
(* SRT formatter).                                                         *)
(*                                                                         *)
(* Strings are sequences of one-character strings, so that splitting,      *)
(* trimming, integer parsing and zero-padded formatting are computed as    *)
(* the code computes them.  A time.Duration is counted in milliseconds:    *)
(* every duration the parser builds is a whole number of milliseconds,     *)
(* and the nanosecond count of a day does not fit TLC's integers .  *)
(***************************************************************************)
EXTENDS Integers, Sequences, FiniteSets, TLC

(***************************************************************************)
(* Bounds of the model.                                                    *)
(***************************************************************************)
\* Longest input, in lines, that is any sequence over the line alphabet.
MaxLines == 4
\* Most text lines of a block in the two-block documents.
MaxText == 2
\* Most blank lines between the two blocks of a document.
MaxGap == 2
\* Longest record list a caller hands to ConvertToSRT without parsing.
MaxDirect == 3
\* Longest record list a caller hands to WriteToFile or WriteToWriter.
MaxWrite == 2

(***************************************************************************)
(* time.Duration units, in milliseconds.                                   *)
(***************************************************************************)
Millisecond == 1
Second == 1000
Minute == 60000
Hour == 3600000

(***************************************************************************)
(* The library functions the code calls (strings, strconv, fmt).           *)
(***************************************************************************)
NL == "\n"

\* unicode.IsSpace, on the characters the inputs use.
IsSpace(c) == c \in {" ", "\t", "\r", "\n"}

Digits == <<"0", "1", "2", "3", "4", "5", "6", "7", "8", "9">>

IsDigit(c) == \E k \in 1..10 : Digits[k] = c

DigitVal(c) == (CHOOSE k \in 1..10 : Digits[k] = c) - 1

\* strings.ContainsRune
ContainsRune(s, r) == r \in {s[k] : k \in 1..Len(s)}

\* strings.TrimSpace: s without its leading and trailing white space.
TrimSpace(s) ==
    LET keep == {k \in 1..Len(s) : ~IsSpace(s[k])}
    IN  IF keep = {} THEN <<>>
        ELSE LET lo == CHOOSE k \in keep : \A j \in keep : k <= j
                 hi == CHOOSE k \in keep : \A j \in keep : k >= j
             IN  SubSeq(s, lo, hi)

\* strings.Split(s, sep) for a one-character separator: the substrings
\* between the separators; a string without separator gives <<s>>.
RECURSIVE Split(_, _)
Split(s, sep) ==
    IF ~ContainsRune(s, sep) THEN <<s>>
    ELSE LET k == CHOOSE k \in 1..Len(s) :
                      s[k] = sep /\ \A j \in 1..(k - 1) : s[j] # sep
         IN  <<SubSeq(s, 1, k - 1)>> \o Split(SubSeq(s, k + 1, Len(s)), sep)

\* strings.Join(elems, sep)
RECURSIVE Join(_, _)
Join(elems, sep) ==
    IF Len(elems) = 0 THEN <<>>
    ELSE IF Len(elems) = 1 THEN elems[1]
    ELSE elems[1] \o sep \o Join(Tail(elems), sep)

\* The value of a string of decimal digits.
RECURSIVE DecimalValue(_)
DecimalValue(s) ==
    IF Len(s) = 0 THEN 0
    ELSE 10 * DecimalValue(SubSeq(s, 1, Len(s) - 1)) + DigitVal(s[Len(s)])

\* strconv.Atoi: an optional sign, then one or more decimal digits.
Atoi(s) ==
    LET signed == Len(s) > 0 /\ s[1] \in {"+", "-"}
        body   == IF signed THEN Tail(s) ELSE s
    IN  IF Len(body) = 0 \/ \E k \in 1..Len(body) : ~IsDigit(body[k])
        THEN [ok |-> FALSE, val |-> 0]
        ELSE [ok |-> TRUE,
              val |-> IF signed /\ s[1] = "-" THEN 0 - DecimalValue(body)
                      ELSE DecimalValue(body)]

\* The decimal digits of a natural number.
RECURSIVE NatDigits(_)
NatDigits(n) ==
    IF n < 10 THEN <<Digits[n + 1]>>
    ELSE NatDigits(n \div 10) \o <<Digits[(n % 10) + 1]>>

\* strconv.Itoa, and fmt's %d
Itoa(n) == IF n < 0 THEN <<"-">> \o NatDigits(0 - n) ELSE NatDigits(n)

RECURSIVE Zeros(_)
Zeros(n) == IF n <= 0 THEN <<>> ELSE <<"0">> \o Zeros(n - 1)

\* fmt's %0<width>d: the sign first, then zeros up to the width.
PadInt(n, width) ==
    LET ds == NatDigits(IF n < 0 THEN 0 - n ELSE n)
    IN  IF n < 0 THEN <<"-">> \o Zeros(width - 1 - Len(ds)) \o ds
        ELSE Zeros(width - Len(ds)) \o ds

\* Go's integer division and remainder truncate toward zero.
Quo(a, b) == IF a >= 0 THEN a \div b ELSE 0 - ((0 - a) \div b)

Rem(a, b) == a - b * Quo(a, b)

(***************************************************************************)
(* Errors: the chain of messages fmt.Errorf builds with %w, outermost      *)
(* first, and the value the innermost message prints.                      *)
(***************************************************************************)
NoErr == [chain |-> <<>>, arg |-> <<>>]

Errorf(msg, arg) == [chain |-> <<msg>>, arg |-> arg]

Wrap(msg, e) == [chain |-> <<msg>> \o e.chain, arg |-> e.arg]

(***************************************************************************)
(* pkg/sbv/convert.go                                                      *)
(***************************************************************************)
\* Subtitle{}: the zero value.
ZeroSubtitle == [StartTime |-> 0, EndTime |-> 0, Text |-> <<>>]

\* isTimestampLine with "or" for "and".
isTimestampLine_Either(line) ==
    ContainsRune(line, ",") \/ ContainsRune(line, ":")

\* isTimestampLine: the line has a comma and a colon.
isTimestampLine(line) == ContainsRune(line, ",") /\ ContainsRune(line, ":")

\* parseTime with hours accepted up to 24.
parseTime_Hours24(timeStr) ==
    LET parts == Split(timeStr, ":")
        fail(e) == [d |-> 0, err |-> e]
    IN
    IF Len(parts) # 3 THEN fail(Errorf("invalid time format", timeStr))
    ELSE
    LET hours == Atoi(parts[1]) IN
    IF ~hours.ok THEN fail(Errorf("invalid hours", parts[1]))
    ELSE IF hours.val < 0 \/ hours.val > 24
    THEN fail(Errorf("hours out of range (0-23)", Itoa(hours.val)))
    ELSE
    LET minutes == Atoi(parts[2]) IN
    IF ~minutes.ok THEN fail(Errorf("invalid minutes", parts[2]))
    ELSE IF minutes.val < 0 \/ minutes.val > 59
    THEN fail(Errorf("minutes out of range (0-59)", Itoa(minutes.val)))
    ELSE
    LET secondsParts == Split(parts[3], ".") IN
    IF Len(secondsParts) # 2
    THEN fail(Errorf("invalid seconds format", parts[3]))
    ELSE
    LET seconds == Atoi(secondsParts[1]) IN
    IF ~seconds.ok THEN fail(Errorf("invalid seconds", secondsParts[1]))
    ELSE IF seconds.val < 0 \/ seconds.val > 59
    THEN fail(Errorf("seconds out of range (0-59)", Itoa(seconds.val)))
    ELSE
    LET milliseconds == Atoi(secondsParts[2]) IN
    IF ~milliseconds.ok
    THEN fail(Errorf("invalid milliseconds", secondsParts[2]))
    ELSE IF milliseconds.val < 0 \/ milliseconds.val > 999
    THEN fail(Errorf("milliseconds out of range (0-999)",
                     Itoa(milliseconds.val)))
    ELSE [d |-> hours.val * Hour + minutes.val * Minute
                + seconds.val * Second + milliseconds.val * Millisecond,
          err |-> NoErr]

\* parseTime without the tests for values below zero.
parseTime_NoLowerBound(timeStr) ==
    LET parts == Split(timeStr, ":")
        fail(e) == [d |-> 0, err |-> e]
    IN
    IF Len(parts) # 3 THEN fail(Errorf("invalid time format", timeStr))
    ELSE
    LET hours == Atoi(parts[1]) IN
    IF ~hours.ok THEN fail(Errorf("invalid hours", parts[1]))
    ELSE IF hours.val > 23
    THEN fail(Errorf("hours out of range (0-23)", Itoa(hours.val)))
    ELSE
    LET minutes == Atoi(parts[2]) IN
    IF ~minutes.ok THEN fail(Errorf("invalid minutes", parts[2]))
    ELSE IF minutes.val > 59
    THEN fail(Errorf("minutes out of range (0-59)", Itoa(minutes.val)))
    ELSE
    LET secondsParts == Split(parts[3], ".") IN
    IF Len(secondsParts) # 2
    THEN fail(Errorf("invalid seconds format", parts[3]))
    ELSE
    LET seconds == Atoi(secondsParts[1]) IN
    IF ~seconds.ok THEN fail(Errorf("invalid seconds", secondsParts[1]))
    ELSE IF seconds.val > 59
    THEN fail(Errorf("seconds out of range (0-59)", Itoa(seconds.val)))
    ELSE
    LET milliseconds == Atoi(secondsParts[2]) IN
    IF ~milliseconds.ok
    THEN fail(Errorf("invalid milliseconds", secondsParts[2]))
    ELSE IF milliseconds.val > 999
    THEN fail(Errorf("milliseconds out of range (0-999)",
                     Itoa(milliseconds.val)))
    ELSE [d |-> hours.val * Hour + minutes.val * Minute
                + seconds.val * Second + milliseconds.val * Millisecond,
          err |-> NoErr]

\* parseTime reading the digits after the dot as a decimal fraction of a
\* second.
parseTime_Fraction(timeStr) ==
    LET parts == Split(timeStr, ":")
        fail(e) == [d |-> 0, err |-> e]
    IN
    IF Len(parts) # 3 THEN fail(Errorf("invalid time format", timeStr))
    ELSE
    LET hours == Atoi(parts[1]) IN
    IF ~hours.ok THEN fail(Errorf("invalid hours", parts[1]))
    ELSE IF hours.val < 0 \/ hours.val > 23
    THEN fail(Errorf("hours out of range (0-23)", Itoa(hours.val)))
    ELSE
    LET minutes == Atoi(parts[2]) IN
    IF ~minutes.ok THEN fail(Errorf("invalid minutes", parts[2]))
    ELSE IF minutes.val < 0 \/ minutes.val > 59
    THEN fail(Errorf("minutes out of range (0-59)", Itoa(minutes.val)))
    ELSE
    LET secondsParts == Split(parts[3], ".") IN
    IF Len(secondsParts) # 2
    THEN fail(Errorf("invalid seconds format", parts[3]))
    ELSE
    LET seconds == Atoi(secondsParts[1]) IN
    IF ~seconds.ok THEN fail(Errorf("invalid seconds", secondsParts[1]))
    ELSE IF seconds.val < 0 \/ seconds.val > 59
    THEN fail(Errorf("seconds out of range (0-59)", Itoa(seconds.val)))
    ELSE
    LET milliseconds == Atoi(secondsParts[2]) IN
    IF ~milliseconds.ok
    THEN fail(Errorf("invalid milliseconds", secondsParts[2]))
    ELSE IF milliseconds.val < 0 \/ milliseconds.val > 999
    THEN fail(Errorf("milliseconds out of range (0-999)",
                     Itoa(milliseconds.val)))
    ELSE
    LET scale == IF Len(secondsParts[2]) = 1 THEN 100
                 ELSE IF Len(secondsParts[2]) = 2 THEN 10 ELSE 1
    IN  [d |-> hours.val * Hour + minutes.val * Minute
               + seconds.val * Second
               + milliseconds.val * scale * Millisecond,
         err |-> NoErr]

\* parseTime: "H:MM:SS.mmm" to a duration, or the first failing check.
parseTime(timeStr) ==
    LET parts == Split(timeStr, ":")
        fail(e) == [d |-> 0, err |-> e]
    IN
    IF Len(parts) # 3 THEN fail(Errorf("invalid time format", timeStr))
    ELSE
    LET hours == Atoi(parts[1]) IN
    IF ~hours.ok THEN fail(Errorf("invalid hours", parts[1]))
    ELSE IF hours.val < 0 \/ hours.val > 23
    THEN fail(Errorf("hours out of range (0-23)", Itoa(hours.val)))
    ELSE
    LET minutes == Atoi(parts[2]) IN
    IF ~minutes.ok THEN fail(Errorf("invalid minutes", parts[2]))
    ELSE IF minutes.val < 0 \/ minutes.val > 59
    THEN fail(Errorf("minutes out of range (0-59)", Itoa(minutes.val)))
    ELSE
    LET secondsParts == Split(parts[3], ".") IN
    IF Len(secondsParts) # 2
    THEN fail(Errorf("invalid seconds format", parts[3]))
    ELSE
    LET seconds == Atoi(secondsParts[1]) IN
    IF ~seconds.ok THEN fail(Errorf("invalid seconds", secondsParts[1]))
    ELSE IF seconds.val < 0 \/ seconds.val > 59
    THEN fail(Errorf("seconds out of range (0-59)", Itoa(seconds.val)))
    ELSE
    LET milliseconds == Atoi(secondsParts[2]) IN
    IF ~milliseconds.ok
    THEN fail(Errorf("invalid milliseconds", secondsParts[2]))
    ELSE IF milliseconds.val < 0 \/ milliseconds.val > 999
    THEN fail(Errorf("milliseconds out of range (0-999)",
                     Itoa(milliseconds.val)))
    ELSE [d |-> hours.val * Hour + minutes.val * Minute
                + seconds.val * Second + milliseconds.val * Millisecond,
          err |-> NoErr]

\* parseTimestamps with the two parts taken in the wrong order.
parseTimestamps_Swapped(timestampLine) ==
    LET parts == Split(timestampLine, ",")
        fail(e) == [start |-> 0, end |-> 0, err |-> e]
    IN
    IF Len(parts) # 2
    THEN fail(Errorf("invalid timestamp format", timestampLine))
    ELSE
    LET startTime == parseTime(TrimSpace(parts[2])) IN
    IF startTime.err # NoErr
    THEN fail(Wrap("failed to parse start time", startTime.err))
    ELSE
    LET endTime == parseTime(TrimSpace(parts[1])) IN
    IF endTime.err # NoErr
    THEN fail(Wrap("failed to parse end time", endTime.err))
    ELSE [start |-> startTime.d, end |-> endTime.d, err |-> NoErr]

\* parseTimestamps accepting more than two parts (and reading the first two).
parseTimestamps_TwoOrMore(timestampLine) ==
    LET parts == Split(timestampLine, ",")
        fail(e) == [start |-> 0, end |-> 0, err |-> e]
    IN
    IF Len(parts) < 2
    THEN fail(Errorf("invalid timestamp format", timestampLine))
    ELSE
    LET startTime == parseTime(TrimSpace(parts[1])) IN
    IF startTime.err # NoErr
    THEN fail(Wrap("failed to parse start time", startTime.err))
    ELSE
    LET endTime == parseTime(TrimSpace(parts[2])) IN
    IF endTime.err # NoErr
    THEN fail(Wrap("failed to parse end time", endTime.err))
    ELSE [start |-> startTime.d, end |-> endTime.d, err |-> NoErr]

\* parseTimestamps answering every failure with the same error.
parseTimestamps_GenericError(timestampLine) ==
    LET parts == Split(timestampLine, ",")
        fail(e) == [start |-> 0, end |-> 0, err |-> e]
    IN
    IF Len(parts) # 2
    THEN fail(Errorf("invalid timestamp format", timestampLine))
    ELSE
    LET startTime == parseTime(TrimSpace(parts[1])) IN
    IF startTime.err # NoErr
    THEN fail(Errorf("invalid timestamp format", timestampLine))
    ELSE
    LET endTime == parseTime(TrimSpace(parts[2])) IN
    IF endTime.err # NoErr
    THEN fail(Errorf("invalid timestamp format", timestampLine))
    ELSE [start |-> startTime.d, end |-> endTime.d, err |-> NoErr]

\* parseTimestamps: "H:MM:SS.mmm,H:MM:SS.mmm" to the two durations.
\* parseTimestamps refusing a line whose end is not after its start.
parseTimestamps_EndAfterStart(timestampLine) ==
    LET parts == Split(timestampLine, ",")
        fail(e) == [start |-> 0, end |-> 0, err |-> e]
    IN
    IF Len(parts) # 2
    THEN fail(Errorf("invalid timestamp format", timestampLine))
    ELSE
    LET startTime == parseTime(TrimSpace(parts[1])) IN
    IF startTime.err # NoErr
    THEN fail(Wrap("failed to parse start time", startTime.err))
    ELSE
    LET endTime == parseTime(TrimSpace(parts[2])) IN
    IF endTime.err # NoErr
    THEN fail(Wrap("failed to parse end time", endTime.err))
    ELSE IF endTime.d <= startTime.d
    THEN fail(Errorf("end time not after start time", timestampLine))
    ELSE [start |-> startTime.d, end |-> endTime.d, err |-> NoErr]

\* parseTimestamps: the start and the end of a timestamp line, or the error.
parseTimestamps(timestampLine) ==
    LET parts == Split(timestampLine, ",")
        fail(e) == [start |-> 0, end |-> 0, err |-> e]
    IN
    IF Len(parts) # 2
    THEN fail(Errorf("invalid timestamp format", timestampLine))
    ELSE
    LET startTime == parseTime(TrimSpace(parts[1])) IN
    IF startTime.err # NoErr
    THEN fail(Wrap("failed to parse start time", startTime.err))
    ELSE
    LET endTime == parseTime(TrimSpace(parts[2])) IN
    IF endTime.err # NoErr
    THEN fail(Wrap("failed to parse end time", endTime.err))
    ELSE [start |-> startTime.d, end |-> endTime.d, err |-> NoErr]

\* The loop of parseSubtitleBlock ending the text at a timestamp-shaped line
\* as well.
RECURSIVE TextEnd_StopsAtTimestamp(_, _)
TextEnd_StopsAtTimestamp(lines, currentIndex) ==
    IF /\ currentIndex < Len(lines)
       /\ lines[currentIndex + 1] # <<>>
       /\ ~isTimestampLine(lines[currentIndex + 1])
    THEN TextEnd_StopsAtTimestamp(lines, currentIndex + 1)
    ELSE currentIndex

\* The loop of parseSubtitleBlock without its test for a blank line.
TextEnd_ToEndOfInput(lines, currentIndex) ==
    IF currentIndex < Len(lines) THEN Len(lines) ELSE currentIndex

\* The loop of parseSubtitleBlock: the index (0-based) of the first blank
\* line at or after currentIndex, or len(lines).
RECURSIVE TextEnd(_, _)
TextEnd(lines, currentIndex) ==
    IF currentIndex < Len(lines) /\ lines[currentIndex + 1] # <<>>
    THEN TextEnd(lines, currentIndex + 1)
    ELSE currentIndex

\* parseSubtitleBlock refusing a block without text.
parseSubtitleBlock_TextRequired(lines, startIndex) ==
    IF startIndex >= Len(lines)
    THEN [sub |-> ZeroSubtitle, next |-> startIndex,
          err |-> Errorf("start index out of bounds", <<>>)]
    ELSE
    LET ts == parseTimestamps(lines[startIndex + 1]) IN
    IF ts.err # NoErr
    THEN [sub |-> ZeroSubtitle, next |-> startIndex,
          err |-> Wrap("failed to parse timestamps", ts.err)]
    ELSE
    LET currentIndex == TextEnd(lines, startIndex + 1)
        textLines == SubSeq(lines, startIndex + 2, currentIndex)
    IN  IF textLines = <<>>
        THEN [sub |-> ZeroSubtitle, next |-> startIndex,
              err |-> Errorf("subtitle without text", <<>>)]
        ELSE [sub |-> [StartTime |-> ts.start, EndTime |-> ts.end,
                       Text |-> Join(textLines, <<NL>>)],
              next |-> currentIndex,
              err |-> NoErr]

\* parseSubtitleBlock: the block whose timestamp line is lines[startIndex]
\* (0-based), and the index after its text.
parseSubtitleBlock(lines, startIndex) ==
    IF startIndex >= Len(lines)
    THEN [sub |-> ZeroSubtitle, next |-> startIndex,
          err |-> Errorf("start index out of bounds", <<>>)]
    ELSE
    LET ts == parseTimestamps(lines[startIndex + 1]) IN
    IF ts.err # NoErr
    THEN [sub |-> ZeroSubtitle, next |-> startIndex,
          err |-> Wrap("failed to parse timestamps", ts.err)]
    ELSE
    LET currentIndex == TextEnd(lines, startIndex + 1)
        textLines == SubSeq(lines, startIndex + 2, currentIndex)
    IN  [sub |-> [StartTime |-> ts.start, EndTime |-> ts.end,
                  Text |-> Join(textLines, <<NL>>)],
         next |-> currentIndex,
         err |-> NoErr]

\* formatSRTTime with the minutes not reduced modulo 60.
formatSRTTime_MinutesNotReduced(duration) ==
    LET hours == Quo(duration, Hour)
        minutes == Quo(duration, Minute)
        seconds == Rem(Quo(duration, Second), 60)
        milliseconds == Rem(Quo(duration, Millisecond), 1000)
    IN  PadInt(hours, 2) \o <<":">> \o PadInt(minutes, 2) \o <<":">>
        \o PadInt(seconds, 2) \o <<",">> \o PadInt(milliseconds, 3)

\* formatSRTTime with the period of SBV before the milliseconds.
formatSRTTime_Period(duration) ==
    LET hours == Quo(duration, Hour)
        minutes == Rem(Quo(duration, Minute), 60)
        seconds == Rem(Quo(duration, Second), 60)
        milliseconds == Rem(Quo(duration, Millisecond), 1000)
    IN  PadInt(hours, 2) \o <<":">> \o PadInt(minutes, 2) \o <<":">>
        \o PadInt(seconds, 2) \o <<".">> \o PadInt(milliseconds, 3)

\* formatSRTTime: a duration as HH:MM:SS,mmm.
formatSRTTime(duration) ==
    LET hours == Quo(duration, Hour)
        minutes == Rem(Quo(duration, Minute), 60)
        seconds == Rem(Quo(duration, Second), 60)
        milliseconds == Rem(Quo(duration, Millisecond), 1000)
    IN  PadInt(hours, 2) \o <<":">> \o PadInt(minutes, 2) \o <<":">>
        \o PadInt(seconds, 2) \o <<",">> \o PadInt(milliseconds, 3)

\* The loop of ConvertToSRT with one newline, not two, after the text.
RECURSIVE WriteBlocks_OneNewline(_, _, _)
WriteBlocks_OneNewline(subtitles, i, result) ==
    IF i >= Len(subtitles) THEN result
    ELSE LET subtitle == subtitles[i + 1]
         IN  WriteBlocks_OneNewline(subtitles, i + 1,
                 result \o Itoa(i + 1) \o <<NL>>
                 \o formatSRTTime(subtitle.StartTime)
                 \o <<" ", "-", "-", ">", " ">>
                 \o formatSRTTime(subtitle.EndTime) \o <<NL>>
                 \o subtitle.Text \o <<NL>>)

\* The loop of ConvertToSRT: result after the records from position i
\* (0-based) on have been written to it.
RECURSIVE WriteBlocks(_, _, _)
WriteBlocks(subtitles, i, result) ==
    IF i >= Len(subtitles) THEN result
    ELSE LET subtitle == subtitles[i + 1]
         IN  WriteBlocks(subtitles, i + 1,
                 result \o Itoa(i + 1) \o <<NL>>
                 \o formatSRTTime(subtitle.StartTime)
                 \o <<" ", "-", "-", ">", " ">>
                 \o formatSRTTime(subtitle.EndTime) \o <<NL>>
                 \o subtitle.Text \o <<NL, NL>>)

\* ConvertToSRT with the records sorted by start time first.
RECURSIVE SortedByStart(_)
SortedByStart(subtitles) ==
    IF Len(subtitles) = 0 THEN <<>>
    ELSE LET k == CHOOSE k \in 1..Len(subtitles) :
                      \A j \in 1..Len(subtitles) :
                          \/ subtitles[k].StartTime < subtitles[j].StartTime
                          \/ /\ subtitles[k].StartTime = subtitles[j].StartTime
                             /\ k <= j
         IN  <<subtitles[k]>>
             \o SortedByStart([j \in 1..(Len(subtitles) - 1) |->
                                  IF j < k THEN subtitles[j]
                                  ELSE subtitles[j + 1]])

ConvertToSRT_Sorted(subtitles) == WriteBlocks(SortedByStart(subtitles), 0, <<>>)

\* ConvertToSRT: the SRT text of a record list.
ConvertToSRT(subtitles) == WriteBlocks(subtitles, 0, <<>>)

(***************************************************************************)
(* The library functions the file wrappers and the command call            *)
(* (bufio, strings, path/filepath).                                        *)
(***************************************************************************)
\* bufio.ScanLines drops one carriage return at the end of a line.
DropCR(l) ==
    IF Len(l) > 0 /\ l[Len(l)] = "\r" THEN SubSeq(l, 1, Len(l) - 1) ELSE l

\* What a bufio.Scanner yields for a text: its lines, without their ends;
\* no line for what follows the last newline when that is empty.
ScanLines(text) ==
    LET parts == Split(text, NL)
        kept == IF parts[Len(parts)] = <<>>
                THEN SubSeq(parts, 1, Len(parts) - 1)
                ELSE parts
    IN  [k \in 1..Len(kept) |-> DropCR(kept[k])]

UpperLetters ==
    <<"A", "B", "C", "D", "E", "F", "G", "H", "I", "J", "K", "L", "M", "N",
      "O", "P", "Q", "R", "S", "T", "U", "V", "W", "X", "Y", "Z">>

LowerLetters ==
    <<"a", "b", "c", "d", "e", "f", "g", "h", "i", "j", "k", "l", "m", "n",
      "o", "p", "q", "r", "s", "t", "u", "v", "w", "x", "y", "z">>

\* strings.ToLower
ToLower(s) ==
    [k \in 1..Len(s) |->
        IF \E n \in 1..26 : UpperLetters[n] = s[k]
        THEN LowerLetters[CHOOSE n \in 1..26 : UpperLetters[n] = s[k]]
        ELSE s[k]]

\* strings.HasSuffix
HasSuffix(s, suffix) ==
    /\ Len(s) >= Len(suffix)
    /\ SubSeq(s, Len(s) - Len(suffix) + 1, Len(s)) = suffix

\* strings.TrimSuffix
TrimSuffix(s, suffix) ==
    IF HasSuffix(s, suffix) THEN SubSeq(s, 1, Len(s) - Len(suffix)) ELSE s

\* filepath.Ext: from the last dot of the last element of the path on.
Ext(path) ==
    LET dots == {k \in 1..Len(path) :
                    path[k] = "." /\ \A j \in k..Len(path) : path[j] # "/"}
    IN  IF dots = {} THEN <<>>
        ELSE SubSeq(path, CHOOSE k \in dots : \A j \in dots : j <= k,
                    Len(path))

\* filepath.Clean, for paths without "." or ".." elements and without
\* doubled separators: no separator at the end, "." for the empty path.
RECURSIVE Clean(_)
Clean(path) ==
    IF path = <<>> THEN <<".">>
    ELSE IF Len(path) > 1 /\ path[Len(path)] = "/"
    THEN Clean(SubSeq(path, 1, Len(path) - 1))
    ELSE path

\* filepath.Dir: the path up to its last separator, cleaned.
Dir(path) ==
    LET seps == {k \in 1..Len(path) : path[k] = "/"}
    IN  IF seps = {} THEN Clean(<<>>)
        ELSE Clean(SubSeq(path, 1, CHOOSE k \in seps : \A j \in seps : j <= k))

(***************************************************************************)
(* The file system (package os): what a path names, and the calls on it.   *)
(***************************************************************************)
\* What a path names: nothing, a file (perm: it may be opened for reading
\* and for writing) with its text, or a directory.
NoFile == [kind |-> "none", perm |-> FALSE, text |-> <<>>]

File(text) == [kind |-> "file", perm |-> TRUE, text |-> text]

Locked(text) == [kind |-> "file", perm |-> FALSE, text |-> text]

Directory == [kind |-> "dir", perm |-> TRUE, text |-> <<>>]

Entry(d, path) == IF path \in DOMAIN d THEN d[path] ELSE NoFile

\* An error of the operating system, with the path it is about.
ENOENT == "no such file or directory"

EACCES == "permission denied"

EISDIR == "is a directory"

ENOTDIR == "not a directory"

ENOSPC == "no space left on device"

\* os.Stat followed by os.IsNotExist
StatNotExist(d, path) == Entry(d, path).kind = "none"

\* os.Open: the error, NoErr when the file (or directory) is opened.
Open(d, path) ==
    LET f == Entry(d, path)
    IN  IF f.kind = "none" THEN Errorf(ENOENT, path)
        ELSE IF f.kind = "file" /\ ~f.perm THEN Errorf(EACCES, path)
        ELSE NoErr

\* os.Create: the error, NoErr when the file is created or truncated.
Create(d, path) ==
    LET f == Entry(d, path)
        parent == Entry(d, Dir(path))
    IN  IF path = <<>> THEN Errorf(ENOENT, path)
        ELSE IF Dir(path) # <<".">> /\ parent.kind = "none"
        THEN Errorf(ENOENT, path)
        ELSE IF Dir(path) # <<".">> /\ parent.kind = "file"
        THEN Errorf(ENOTDIR, path)
        ELSE IF f.kind = "dir" THEN Errorf(EISDIR, path)
        ELSE IF f.kind = "file" /\ ~f.perm THEN Errorf(EACCES, path)
        ELSE NoErr

\* The file system with the file at path holding text.
Stored(d, path, text) ==
    [p \in DOMAIN d \cup {path} |-> IF p = path THEN File(text) ELSE d[p]]

\* A file handle: its path, how it was opened, whether it is open, and how
\* often Close was called on it.
Handle(path, flag) ==
    [path |-> path, flag |-> flag, open |-> TRUE, closes |-> 0]

\* file.Close() on the handle opened last.
CloseLast(handles) ==
    [handles EXCEPT ![Len(handles)] =
        [@ EXCEPT !.open = FALSE, !.closes = @ + 1]]

(***************************************************************************)
(* The file wrappers of pkg/sbv/convert.go and the command (package cmd)   *)
(***************************************************************************)
\* A writer: a file opened at a path, or some other io.Writer; fails: the
\* device is full (for a file), or Write returns an error (otherwise).
FileWriter(path, fails) == [file |-> TRUE, path |-> path, fails |-> fails]

OtherWriter(fails) == [file |-> FALSE, path |-> <<>>, fails |-> fails]

\* The error of writer.Write(data).  A file takes no bytes without error.
WriteError(writer, data) ==
    IF ~writer.fails THEN NoErr
    ELSE IF ~writer.file THEN Errorf("write error", <<>>)
    ELSE IF Len(data) = 0 THEN NoErr
    ELSE Errorf(ENOSPC, writer.path)

\* What a file holds of the data when the Write is over.
Accepted(writer, data) ==
    IF WriteError(writer, data) = NoErr THEN data
    ELSE SubSeq(data, 1, Len(data) \div 2)

\* WriteToWriter handing the writer the text without the white space at its
\* ends.
WriteToWriter_Trimmed(subtitles, writer) ==
    LET srtContent == TrimSpace(ConvertToSRT(subtitles))
        err == WriteError(writer, srtContent)
    IN  [writes |-> <<srtContent>>,
         err |-> IF err # NoErr
                 THEN Wrap("failed to write SRT content", err)
                 ELSE NoErr]

\* WriteToWriter: the data of its calls of writer.Write, and the error it
\* returns.
WriteToWriter(subtitles, writer) ==
    LET srtContent == ConvertToSRT(subtitles)
        err == WriteError(writer, srtContent)
    IN  [writes |-> <<srtContent>>,
         err |-> IF err # NoErr
                 THEN Wrap("failed to write SRT content", err)
                 ELSE NoErr]

\* validateInputFile testing the extension before the existence.
validateInputFile_ExtensionFirst(d, input) ==
    LET ext == ToLower(Ext(input))
        none(e) == [err |-> e, handles |-> <<>>]
    IN  IF input = <<>>
        THEN none(Errorf("input file path cannot be empty", <<>>))
        ELSE IF ext # <<".", "s", "b", "v">>
        THEN none(Errorf("input file must have .sbv extension", ext))
        ELSE IF StatNotExist(d, input)
        THEN none(Errorf("input file does not exist", input))
        ELSE IF Open(d, input) # NoErr
        THEN none(Wrap("cannot read input file", Open(d, input)))
        ELSE [err |-> NoErr,
              handles |-> CloseLast(<<Handle(input, "O_RDONLY")>>)]

\* validateInputFile: the error, and the handles it opened, as it leaves
\* them.
validateInputFile(d, input) ==
    LET ext == ToLower(Ext(input))
        none(e) == [err |-> e, handles |-> <<>>]
    IN  IF input = <<>>
        THEN none(Errorf("input file path cannot be empty", <<>>))
        ELSE IF StatNotExist(d, input)
        THEN none(Errorf("input file does not exist", input))
        ELSE IF ext # <<".", "s", "b", "v">>
        THEN none(Errorf("input file must have .sbv extension", ext))
        ELSE IF Open(d, input) # NoErr
        THEN none(Wrap("cannot read input file", Open(d, input)))
        ELSE [err |-> NoErr,
              handles |-> CloseLast(<<Handle(input, "O_RDONLY")>>)]

\* determineOutputPath testing the extension before the directory.
determineOutputPath_ExtensionFirst(d, input, output) ==
    IF output # <<>>
    THEN LET outputDir == Dir(output)
         IN  IF ~HasSuffix(ToLower(output), <<".", "s", "r", "t">>)
             THEN [path |-> <<>>,
                   err |-> Errorf("output file must have .srt extension",
                                  <<>>)]
             ELSE IF outputDir # <<".">> /\ StatNotExist(d, outputDir)
             THEN [path |-> <<>>,
                   err |-> Errorf("output directory does not exist",
                                  outputDir)]
             ELSE [path |-> output, err |-> NoErr]
    ELSE LET inputBase == TrimSuffix(input, Ext(input))
         IN  [path |-> inputBase \o <<".", "s", "r", "t">>, err |-> NoErr]

\* determineOutputPath: the output path, or the error.
determineOutputPath(d, input, output) ==
    IF output # <<>>
    THEN LET outputDir == Dir(output)
         IN  IF outputDir # <<".">> /\ StatNotExist(d, outputDir)
             THEN [path |-> <<>>,
                   err |-> Errorf("output directory does not exist",
                                  outputDir)]
             ELSE IF ~HasSuffix(ToLower(output), <<".", "s", "r", "t">>)
             THEN [path |-> <<>>,
                   err |-> Errorf("output file must have .srt extension",
                                  <<>>)]
             ELSE [path |-> output, err |-> NoErr]
    ELSE LET inputBase == TrimSuffix(input, Ext(input))
         IN  [path |-> inputBase \o <<".", "s", "r", "t">>, err |-> NoErr]

(***************************************************************************)
(* The inputs.  A line is written once as text and once as what it means   *)
(* (its kind, the numbers of its fields): the tables below are the test    *)
(* vectors the properties are stated over.                                 *)
(***************************************************************************)
\* Hours fields: the text, whether it is an integer, its value.
HoursTokens ==
    { [txt |-> <<"0">>, int |-> TRUE, val |-> 0],
      [txt |-> <<"1">>, int |-> TRUE, val |-> 1],
      [txt |-> <<"2", "3">>, int |-> TRUE, val |-> 23],
      [txt |-> <<"2", "4">>, int |-> TRUE, val |-> 24],
      [txt |-> <<"-", "1">>, int |-> TRUE, val |-> -1],
      [txt |-> <<"a", "b">>, int |-> FALSE, val |-> 0],
      [txt |-> <<"-", "0">>, int |-> TRUE, val |-> 0] }

\* Minutes fields.
MinutesTokens ==
    { [txt |-> <<"0", "0">>, int |-> TRUE, val |-> 0],
      [txt |-> <<"3", "0">>, int |-> TRUE, val |-> 30],
      [txt |-> <<"5", "9">>, int |-> TRUE, val |-> 59],
      [txt |-> <<"6", "0">>, int |-> TRUE, val |-> 60],
      [txt |-> <<"-", "5">>, int |-> TRUE, val |-> -5],
      [txt |-> <<"x", "y">>, int |-> FALSE, val |-> 0],
      [txt |-> <<"-", "0">>, int |-> TRUE, val |-> 0] }

\* Seconds fields.
SecondsTokens ==
    { [txt |-> <<"0", "0">>, int |-> TRUE, val |-> 0],
      [txt |-> <<"1", "5">>, int |-> TRUE, val |-> 15],
      [txt |-> <<"5", "9">>, int |-> TRUE, val |-> 59],
      [txt |-> <<"6", "0">>, int |-> TRUE, val |-> 60],
      [txt |-> <<"-", "5">>, int |-> TRUE, val |-> -5],
      [txt |-> <<"a", "b">>, int |-> FALSE, val |-> 0],
      [txt |-> <<"-", "0">>, int |-> TRUE, val |-> 0] }

\* Milliseconds fields.
MillisTokens ==
    { [txt |-> <<"0", "0", "0">>, int |-> TRUE, val |-> 0],
      [txt |-> <<"5", "0", "0">>, int |-> TRUE, val |-> 500],
      [txt |-> <<"9", "9", "9">>, int |-> TRUE, val |-> 999],
      [txt |-> <<"1", "0", "0", "0">>, int |-> TRUE, val |-> 1000],
      [txt |-> <<"-", "1", "0", "0">>, int |-> TRUE, val |-> -100],
      [txt |-> <<"x", "y", "z">>, int |-> FALSE, val |-> 0],
      [txt |-> <<"5">>, int |-> TRUE, val |-> 5],
      [txt |-> <<"-", "0">>, int |-> TRUE, val |-> 0] }

\* A time value written from four field tokens: H:MM:SS.mmm
TimeText(t) ==
    t.h.txt \o <<":">> \o t.m.txt \o <<":">> \o t.s.txt \o <<".">> \o t.ms.txt

\* Every combination of the field tokens.
RichTimes ==
    [h : HoursTokens, m : MinutesTokens, s : SecondsTokens, ms : MillisTokens]

\* The valid time 1:30:15.500 that stands beside a time under test.
FixedTime ==
    [h |-> [txt |-> <<"1">>, int |-> TRUE, val |-> 1],
     m |-> [txt |-> <<"3", "0">>, int |-> TRUE, val |-> 30],
     s |-> [txt |-> <<"1", "5">>, int |-> TRUE, val |-> 15],
     ms |-> [txt |-> <<"5", "0", "0">>, int |-> TRUE, val |-> 500]]

\* Timestamp lines with the time under test first, or second.
RichDescs ==
    {[first |-> t, second |-> FixedTime] : t \in RichTimes}
    \cup {[first |-> FixedTime, second |-> t] : t \in RichTimes}

LineText(d) == TimeText(d.first) \o <<",">> \o TimeText(d.second)

\* Each such line with its text.
RichTable == {[desc |-> d, txt |-> LineText(d)] : d \in RichDescs}

RichLines == {r.txt : r \in RichTable}

\* Lines whose separators are miscounted or oddly placed.
StructLines ==
    { <<"0", ":", "0", "0", ":", "0", "1", ".", "0", "0", "0", ",", "0",
        ":", "0", "0", ":", "0", "4", ".", "0", "0", "0", ",", "0", ":",
        "0", "0", ":", "0", "6", ".", "0", "0", "0">>,
      <<",", "0", ":", "0", "0", ":", "0", "4", ".", "0", "0", "0">>,
      <<"0", ":", "0", "0", ":", "0", "1", ".", "0", "0", "0", ",">>,
      <<"0", "0", ":", "3", "0", ".", "5", "0", "0", ",", "0", ":", "0",
        "0", ":", "0", "4", ".", "0", "0", "0">>,
      <<"1", ":", "2", ":", "3", ":", "4", ".", "5", "0", "0", ",", "0",
        ":", "0", "0", ":", "0", "4", ".", "0", "0", "0">>,
      <<"0", ":", "0", "0", ":", "0", "1", ".", "0", "0", "0", ",", "0",
        "0", ":", "3", "0", ".", "5", "0", "0">>,
      <<"1", ":", "3", "0", ":", "4", "5", "5", "0", "0", ",", "0", ":",
        "0", "0", ":", "0", "4", ".", "0", "0", "0">>,
      <<"1", ":", "3", "0", ":", "4", "5", ".", "5", ".", "0", "0", ",",
        "0", ":", "0", "0", ":", "0", "4", ".", "0", "0", "0">>,
      <<"0", ":", "0", "0", ":", "0", "1", ".", "0", "0", "0", ",", "1",
        ":", "3", "0", ":", "4", "5", "5", "0", "0">>,
      <<":", ":", ",", "0", ":", "0", "0", ":", "0", "4", ".", "0", "0",
        "0">>,
      <<"0", ":", "0", "0", ":", "0", "1", ".", "0", "0", "0", " ", ",",
        " ", "0", ":", "0", "0", ":", "0", "4", ".", "0", "0", "0">>,
      <<"N", "o", "t", "e", ":", " ", "a", ",", " ", "b">> }

\* Lines without a comma, which only a direct call hands to parseTimestamps.
NoCommaLines ==
    { <<"0", ":", "0", "0", ":", "0", "1", ".", "0", "0", "0", " ", "0",
        ":", "0", "0", ":", "0", "4", ".", "0", "0", "0">>,
      <<>>,
      <<"0", ":", "0", "0", ":", "0", "1", ".", "0", "0", "0">> }

\* The small alphabet the longer inputs are built from: a blank line, two
\* valid timestamp lines (the second with its end before its start), a
\* timestamp line whose minutes are 60, and two lines of text.
PipeLines ==
    { [kind |-> "blank", start |-> 0, end |-> 0,
        trimmed |-> <<>>,
        txt |-> <<>>],
      [kind |-> "ts", start |-> 1000, end |-> 4000,
        trimmed |-> <<"0", ":", "0", "0", ":", "0", "1", ".", "0", "0",
                      "0", ",", "0", ":", "0", "0", ":", "0", "4", ".",
                      "0", "0", "0">>,
        txt |-> <<"0", ":", "0", "0", ":", "0", "1", ".", "0", "0", "0",
                  ",", "0", ":", "0", "0", ":", "0", "4", ".", "0", "0",
                  "0">>],
      [kind |-> "ts", start |-> 5415500, end |-> 8200,
        trimmed |-> <<"1", ":", "3", "0", ":", "1", "5", ".", "5", "0",
                      "0", ",", "0", ":", "0", "0", ":", "0", "8", ".",
                      "2", "0", "0">>,
        txt |-> <<"1", ":", "3", "0", ":", "1", "5", ".", "5", "0", "0",
                  ",", "0", ":", "0", "0", ":", "0", "8", ".", "2", "0",
                  "0">>],
      [kind |-> "bad", start |-> 0, end |-> 0,
        trimmed |-> <<"0", ":", "6", "0", ":", "0", "1", ".", "0", "0",
                      "0", ",", "0", ":", "0", "0", ":", "0", "4", ".",
                      "0", "0", "0">>,
        txt |-> <<"0", ":", "6", "0", ":", "0", "1", ".", "0", "0", "0",
                  ",", "0", ":", "0", "0", ":", "0", "4", ".", "0", "0",
                  "0">>],
      [kind |-> "text", start |-> 0, end |-> 0,
        trimmed |-> <<"X">>,
        txt |-> <<"X">>],
      [kind |-> "text", start |-> 0, end |-> 0,
        trimmed |-> <<"y", ":">>,
        txt |-> <<" ", "y", ":">>] }

LineAlphabet == {l.txt : l \in PipeLines}

\* Documents of two blocks: a timestamp line (valid or not) and its text
\* lines, then blank lines (or none), then the second block.
TextRuns ==
    UNION {[1..n -> {l.txt : l \in {x \in PipeLines : x.kind = "text"}}] :
               n \in 0..MaxText}

Blocks ==
    {<<l.txt>> \o r : l \in {x \in PipeLines : x.kind \in {"ts", "bad"}},
                      r \in TextRuns}

Documents ==
    {b[1] \o [k \in 1..n |-> <<>>] \o b[2] :
         b \in Blocks \X Blocks, n \in 0..MaxGap}

\* A block, a blank line, then a line whose separators are miscounted or
\* oddly placed.
AfterBlock ==
    {<<<<"0", ":", "0", "0", ":", "0", "1", ".", "0", "0", "0", ",", "0",
         ":", "0", "0", ":", "0", "4", ".", "0", "0", "0">>,
       <<"X">>, <<>>, l>> : l \in StructLines}

\* Lines with white space at their ends, inside, or nothing else.
SpaceyLines ==
    { <<" ", "a", " ", "b", "\t">>,
      <<"\t", "a">>,
      <<"a", " ", " ">>,
      <<"X">>,
      <<" ", "\t">>,
      <<>> }

\* A block whose two lines after the timestamp line are such lines.
SpaceyInputs ==
    {<<<<"0", ":", "0", "0", ":", "0", "1", ".", "0", "0", "0", ",", "0",
         ":", "0", "0", ":", "0", "4", ".", "0", "0", "0">>,
       l1, l2>> : l1 \in SpaceyLines, l2 \in SpaceyLines}

\* A valid timestamp line directly followed by a timestamp-shaped line,
\* valid or not, and then by a line of text or by nothing.
Unseparated ==
    LET first == <<"0", ":", "0", "0", ":", "0", "1", ".", "0", "0", "0",
                   ",", "0", ":", "0", "0", ":", "0", "4", ".", "0", "0",
                   "0">>
        second == StructLines \cup
                  {<<"0", ":", "0", "0", ":", "0", "5", ".", "5", "0", "0",
                     ",", "0", ":", "0", "0", ":", "0", "8", ".", "2", "0",
                     "0">>}
    IN  {<<first, l>> : l \in second}
        \cup {<<first, l, <<"W", "o", "r", "l", "d">> >> : l \in second}

\* Lines whose start is 0:00:01 with one to four digits after the dot, and
\* the start they stand for, in milliseconds.
ShortFractions ==
    { [txt |-> <<"0", ":", "0", "0", ":", "0", "1", ".", "5", ",", "0", ":",
                  "0", "0", ":", "0", "4", ".", "0", "0", "0">>,
        start |-> 1005],
      [txt |-> <<"0", ":", "0", "0", ":", "0", "1", ".", "5", "0", ",", "0",
                  ":", "0", "0", ":", "0", "4", ".", "0", "0", "0">>,
        start |-> 1050],
      [txt |-> <<"0", ":", "0", "0", ":", "0", "1", ".", "0", "5", ",", "0",
                  ":", "0", "0", ":", "0", "4", ".", "0", "0", "0">>,
        start |-> 1005],
      [txt |-> <<"0", ":", "0", "0", ":", "0", "1", ".", "5", "0", "0", ",",
                  "0", ":", "0", "0", ":", "0", "4", ".", "0", "0", "0">>,
        start |-> 1500],
      [txt |-> <<"0", ":", "0", "0", ":", "0", "1", ".", "0", "0", "5", ",",
                  "0", ":", "0", "0", ":", "0", "4", ".", "0", "0", "0">>,
        start |-> 1005],
      [txt |-> <<"0", ":", "0", "0", ":", "0", "1", ".", "0", ",", "0", ":",
                  "0", "0", ":", "0", "4", ".", "0", "0", "0">>,
        start |-> 1000],
      [txt |-> <<"0", ":", "0", "0", ":", "0", "1", ".", "0", "0", "0", "5",
                  ",", "0", ":", "0", "0", ":", "0", "4", ".", "0", "0", "0">>,
        start |-> 1005] }

\* What a reader hands to ParseFromReader, line by line: every short
\* sequence over the alphabet, the documents, and the single lines.
Inputs ==
    UNION {[1..n -> LineAlphabet] : n \in 0..MaxLines}
    \cup Documents
    \cup {<<l>> : l \in RichLines \cup StructLines}
    \cup AfterBlock
    \cup SpaceyInputs
    \cup Unseparated
    \cup {<<l.txt>> : l \in ShortFractions}

\* What a reader yields before it fails.
FailingInputs == {<<>>} \cup {<<l>> : l \in LineAlphabet}

\* Records a caller builds itself.
DirectRecords ==
    { [StartTime |-> 1000, EndTime |-> 4000, Text |-> <<"X">>],
      [StartTime |-> 5415500, EndTime |-> 8200,
       Text |-> <<"a", "\n", "\n", "b", "\n">>],
      [StartTime |-> 359999999, EndTime |-> 0, Text |-> <<>>] }

\* Durations handed to formatSRTTime, in milliseconds: around each unit,
\* the last below 100 hours, 100 hours and more, and one below zero.
DirectDurations ==
    {0, 1, 999, 1000, 1001, 59999, 60000, 61001, 3599999, 3600000, 5415500,
     35999999, 36000000, 86399999, 359999999, 360000000, 2147483647, -1500}
    \cup {h * 3600000 + m * 60000 + s * 1000 + ms :
              h \in {0, 9, 10}, m \in {0, 9, 59}, s \in {0, 10, 59},
              ms \in {0, 7, 99, 100}}

DirectLists == UNION {[1..n -> DirectRecords] : n \in 0..MaxDirect}

(***************************************************************************)
(* The files: the paths the calls are given and what they name.            *)
(***************************************************************************)
\* A file of subtitles.
ASbv == <<"a", ".", "s", "b", "v">>

\* One with its extension in capitals.
UpperSbv == <<"A", ".", "S", "B", "V">>

\* One with another extension.
ATxt == <<"a", ".", "t", "x", "t">>

\* One without extension.
BareName == <<"a">>

\* A path that names nothing.
NoSbv == <<"n", "o", ".", "s", "b", "v">>

\* One that names nothing and has another extension.
NoTxt == <<"n", "o", ".", "t", "x", "t">>

\* A directory named as a file of subtitles.
DirSbv == <<"d", ".", "s", "b", "v">>

\* A file that may not be opened.
LockedSbv == <<"p", ".", "s", "b", "v">>

\* A directory.
SubDir == <<"s", "u", "b">>

\* A file of subtitles in it.
SubSbv == <<"s", "u", "b", "/", "a", ".", "s", "b", "v">>

\* The output path derived from a.sbv.
ASrt == <<"a", ".", "s", "r", "t">>

\* An output path.
OSrt == <<"o", ".", "s", "r", "t">>

\* One with its extension in capitals.
UpperSrt == <<"O", ".", "S", "R", "T">>

\* One with another extension.
OTxt == <<"o", ".", "t", "x", "t">>

\* One in the directory.
SubSrt == <<"s", "u", "b", "/", "o", ".", "s", "r", "t">>

\* One in a directory that does not exist.
NoDirSrt == <<"n", "o", "d", "i", "r", "/", "o", ".", "s", "r", "t">>

\* An output file that may not be written.
LockedSrt == <<"r", "o", ".", "s", "r", "t">>

\* An output path with a missing directory and a wrong extension.
NoDirTxt == <<"n", "o", "d", "i", "r", "/", "o", ".", "t", "x", "t">>

\* An empty file.
EmptyText == <<>>

\* Two blocks, no newline at the end.
TwoBlocksText ==
    <<"0", ":", "0", "0", ":", "0", "1", ".", "0", "0", "0", ",", "0", ":",
    "0", "0", ":", "0", "4", ".", "0", "0", "0", "\n", "H", "e", "l", "l",
    "o", "\n", "\n", "0", ":", "0", "0", ":", "0", "5", ".", "5", "0", "0",
    ",", "0", ":", "0", "0", ":", "0", "8", ".", "2", "0", "0", "\n", "W",
    "o", "r", "l", "d">>

\* One block, its lines ending in carriage return and newline.
CrLfText ==
    <<"0", ":", "0", "0", ":", "0", "1", ".", "0", "0", "0", ",", "0", ":",
    "0", "0", ":", "0", "4", ".", "0", "0", "0", "\r", "\n", "H", "i", "\r",
    "\n">>

\* No timestamp line at all.
NoTimestampText ==
    <<"i", "n", "v", "a", "l", "i", "d", " ", "t", "i", "m", "e", "s", "t",
    "a", "m", "p", " ", "f", "o", "r", "m", "a", "t", "\n", "T", "h", "i",
    "s", " ", "i", "s", " ", "n", "o", "t", " ", "a", " ", "v", "a", "l",
    "i", "d", " ", "S", "B", "V", " ", "f", "i", "l", "e">>

\* A block whose minutes are 60.
BadMinutesText ==
    <<"0", ":", "6", "0", ":", "0", "1", ".", "0", "0", "0", ",", "0", ":",
    "0", "0", ":", "0", "4", ".", "0", "0", "0", "\n", "X", "\n">>

\* A block, then one whose minutes are 60.
BlockThenBadText ==
    <<"0", ":", "0", "0", ":", "0", "1", ".", "0", "0", "0", ",", "0", ":",
    "0", "0", ":", "0", "4", ".", "0", "0", "0", "\n", "X", "\n", "\n", "0",
    ":", "6", "0", ":", "0", "1", ".", "0", "0", "0", ",", "0", ":", "0",
    "0", ":", "0", "4", ".", "0", "0", "0", "\n", "Y", "\n">>

\* What an output file holds before the call.
OldText == <<"o", "l", "d", "\n">>

FileTexts ==
    {EmptyText, TwoBlocksText, CrLfText, NoTimestampText, BadMinutesText,
     BlockThenBadText}

\* The records of TwoBlocksText and of CrLfText.
TwoBlocksRecords ==
    <<[StartTime |-> 1000, EndTime |-> 4000,
       Text |-> <<"H", "e", "l", "l", "o">>],
      [StartTime |-> 5500, EndTime |-> 8200,
       Text |-> <<"W", "o", "r", "l", "d">>]>>

CrLfRecords ==
    <<[StartTime |-> 1000, EndTime |-> 4000, Text |-> <<"H", "i">>]>>

\* A file system: a.sbv holds text; with old, the output files a.srt and
\* o.srt are there already.
Disk(text, old) ==
    [p \in {ASbv, UpperSbv, ATxt, BareName, DirSbv, LockedSbv, SubDir,
            SubSbv, LockedSrt} \cup (IF old THEN {ASrt, OSrt} ELSE {}) |->
        CASE p = ASbv -> File(text)
          [] p \in {UpperSbv, ATxt, BareName, SubSbv} -> File(CrLfText)
          [] p = LockedSbv -> Locked(CrLfText)
          [] p \in {DirSbv, SubDir} -> Directory
          [] p = LockedSrt -> Locked(OldText)
          [] OTHER -> File(OldText)]

Disks == {Disk(text, old) : text \in FileTexts, old \in BOOLEAN}

\* The paths given as input and as output ("": none given).
InputPaths ==
    {<<>>, ASbv, UpperSbv, ATxt, BareName, NoSbv, NoTxt, DirSbv, LockedSbv,
     SubSbv}

OutputPaths ==
    {<<>>, OSrt, UpperSrt, OTxt, SubSrt, NoDirSrt, LockedSrt, SubDir,
     NoDirTxt}

\* The lists handed to WriteToFile and WriteToWriter.
WriteLists == UNION {[1..n -> DirectRecords] : n \in 0..MaxWrite}

(***************************************************************************)
(* The state.                                                              *)
(***************************************************************************)
VARIABLES
    reader,     \* the lines the bufio.Scanner of ParseFromReader yields
    readFails,  \* whether the scanner ends on an error of the reader
    lines,      \* ParseFromReader: the trimmed lines
    i,          \* ParseFromReader: the index of the scan (0-based)
    subtitles,  \* ParseFromReader: the records appended so far
    ret,        \* what ParseFromReader returned: the records, the error
    records,    \* the list handed to ConvertToSRT
    srt,        \* what ConvertToSRT returned
    tsCall,     \* a direct call of parseTimestamps: its line, its result
    pc,         \* where the run stands
    fmtCall,    \* a direct call of formatSRTTime: its duration, its result
    disk,       \* the file system: what each path names
    fds,        \* the file handles opened so far, in the order of opening
    path,       \* the filename given to ParseFromFile or WriteToFile
    fret,       \* what ParseFromFile returned: the records, the error
    wret,       \* the error WriteToFile or WriteToWriter returned
    sink,       \* the data of the calls of Write on the writer, in order
    writeFails, \* whether the writer's device is full (or its Write fails)
    cli,        \* the command: its flags, its output path, its step, its error
    outCall     \* a direct call of determineOutputPath: arguments, results

\* The files and the command.
fileVars == <<disk, fds, path, fret, wret, sink, writeFails, cli>>

\* The state of the calls that do not go through ParseFromReader,
\* ConvertToSRT or parseTimestamps.
otherVars == <<fmtCall, fileVars, outCall>>

\* The state of the calls that open no file.
directVars ==
    <<reader, readFails, lines, i, subtitles, ret, tsCall, fmtCall, outCall>>

vars ==
    <<reader, readFails, lines, i, subtitles, ret, records, srt, tsCall, pc,
      otherVars>>

NoReturn == [subs |-> <<>>, err |-> NoErr]

NoCall == [line |-> <<>>, out |-> [start |-> 0, end |-> 0, err |-> NoErr]]

NoFormat == [d |-> 0, out |-> <<>>]

NoDisk == [p \in {} |-> NoFile]

NoOutCall ==
    [input |-> <<>>, output |-> <<>>, path |-> <<>>, err |-> NoErr]

NoCli ==
    [input |-> <<>>, output |-> <<>>, outputPath |-> <<>>, step |-> "off",
     err |-> NoErr]

\* No file system is involved, and no command.
NoFiles ==
    /\ disk = NoDisk
    /\ path = <<>>
    /\ writeFails = FALSE
    /\ cli = NoCli

\* No reader and no direct call of a helper is involved.
NoDirect ==
    /\ reader = <<>>
    /\ readFails = FALSE
    /\ tsCall = NoCall
    /\ fmtCall = NoFormat

\* A caller parses a reader (and then formats what it got).
InitParse ==
    /\ \/ reader \in Inputs /\ readFails = FALSE
       \/ reader \in FailingInputs /\ readFails = TRUE
    /\ records = <<>>
    /\ tsCall = NoCall
    /\ fmtCall = NoFormat
    /\ pc = "read"

\* A caller formats a list it built itself.
InitConvert ==
    /\ reader = <<>>
    /\ readFails = FALSE
    /\ records \in DirectLists
    /\ tsCall = NoCall
    /\ fmtCall = NoFormat
    /\ pc = "given"

\* A direct call of parseTimestamps, as the package's tests make.
InitParseTimestamps ==
    /\ reader = <<>>
    /\ readFails = FALSE
    /\ records = <<>>
    /\ tsCall \in {[NoCall EXCEPT !.line = l] :
                      l \in StructLines \cup NoCommaLines \cup LineAlphabet}
    /\ fmtCall = NoFormat
    /\ pc = "parseTimestamps"

\* A direct call of formatSRTTime, as the package's tests make.
InitFormatSRTTime ==
    /\ reader = <<>>
    /\ readFails = FALSE
    /\ records = <<>>
    /\ tsCall = NoCall
    /\ fmtCall \in {[NoFormat EXCEPT !.d = d] : d \in DirectDurations}
    /\ pc = "formatSRTTime"

\* A caller parses a file.
InitParseFromFile ==
    /\ disk \in Disks
    /\ path \in InputPaths
    /\ records = <<>>
    /\ writeFails = FALSE
    /\ cli = NoCli
    /\ pc = "ParseFromFile"

\* A caller writes a list it built itself to a file.
InitWriteToFile ==
    /\ disk \in {Disk(CrLfText, old) : old \in BOOLEAN}
    /\ path \in OutputPaths
    /\ records \in WriteLists
    /\ writeFails \in BOOLEAN
    /\ cli = NoCli
    /\ pc = "WriteToFile"

\* A caller writes such a list to a writer of its own.
InitWriteToWriter ==
    /\ disk = NoDisk
    /\ path = <<>>
    /\ records \in WriteLists
    /\ writeFails \in BOOLEAN
    /\ cli = NoCli
    /\ pc = "WriteToWriter"

\* The command is run with its flags --input and --output.
InitCli ==
    /\ disk \in Disks
    /\ path = <<>>
    /\ records = <<>>
    /\ writeFails \in BOOLEAN
    /\ cli \in {[NoCli EXCEPT !.input = in, !.output = out,
                              !.step = "start"] :
                    in \in InputPaths, out \in OutputPaths}
    /\ pc = "idle"

\* A caller determines an output path.
InitDetermineOutputPath ==
    /\ disk \in {Disk(CrLfText, old) : old \in BOOLEAN}
    /\ path = <<>>
    /\ records = <<>>
    /\ writeFails = FALSE
    /\ cli = NoCli
    /\ outCall \in {[NoOutCall EXCEPT !.input = in, !.output = out] :
                      in \in InputPaths, out \in OutputPaths}
    /\ pc = "determineOutputPath"

Init ==
    /\ lines = <<>>
    /\ i = 0
    /\ subtitles = <<>>
    /\ ret = NoReturn
    /\ srt = <<>>
    /\ fds = <<>>
    /\ fret = NoReturn
    /\ wret = NoErr
    /\ sink = <<>>
    /\ \/ /\ NoFiles
          /\ outCall = NoOutCall
          /\ \/ InitParse
             \/ InitConvert
             \/ InitParseTimestamps
             \/ InitFormatSRTTime
       \/ /\ NoDirect
          /\ outCall = NoOutCall
          /\ \/ InitParseFromFile
             \/ InitWriteToFile
             \/ InitWriteToWriter
             \/ InitCli
       \/ /\ NoDirect
          /\ InitDetermineOutputPath

(***************************************************************************)
(* ParseFromReader                                                         *)
(***************************************************************************)
\* The read loop keeping every line as the scanner yields it.
ReadLines_Untrimmed(r) == r

\* The read loop: every line the scanner yields, trimmed.
ReadLines(r) == [k \in 1..Len(r) |-> TrimSpace(r[k])]

\* What ParseFromReader returns when scanner.Err() is the error e.
ReadFailureOf(e) == [subs |-> <<>>, err |-> Wrap("error reading input", e)]

\* What ParseFromReader returns when scanner.Err() is not nil.
ReadFailure ==
    [subs |-> <<>>,
     err |-> Wrap("error reading input", Errorf("read error", <<>>))]

\* The read loop and the test of scanner.Err(); then the scan starts.
Read ==
    /\ pc = "read"
    /\ lines' = ReadLines(reader)
    /\ IF readFails
       THEN /\ ret' = ReadFailure
            /\ pc' = "returned"
            /\ UNCHANGED i
       ELSE /\ i' = 0
            /\ pc' = "scan"
            /\ UNCHANGED ret
    /\ UNCHANGED <<reader, readFails, subtitles, records, srt, tsCall,
                   otherVars>>

\* The scan meets an empty line: continue.
ScanBlank ==
    /\ pc = "scan"
    /\ i < Len(lines)
    /\ lines[i + 1] = <<>>
    /\ i' = i + 1
    /\ UNCHANGED <<reader, readFails, lines, subtitles, ret, records, srt,
                   tsCall, pc, otherVars>>

\* The scan appending such a line to the text of the record before it.
ScanOther_Appended ==
    /\ pc = "scan"
    /\ i < Len(lines)
    /\ lines[i + 1] # <<>>
    /\ ~isTimestampLine(lines[i + 1])
    /\ i' = i + 1
    /\ subtitles' =
           IF subtitles = <<>> THEN subtitles
           ELSE [subtitles EXCEPT ![Len(subtitles)].Text =
                                       @ \o <<NL>> \o lines[i + 1]]
    /\ UNCHANGED <<reader, readFails, lines, ret, records, srt, tsCall, pc,
                   otherVars>>

\* The scan meets a line that is not empty and not timestamp-shaped.
ScanOther ==
    /\ pc = "scan"
    /\ i < Len(lines)
    /\ lines[i + 1] # <<>>
    /\ ~isTimestampLine(lines[i + 1])
    /\ i' = i + 1
    /\ UNCHANGED <<reader, readFails, lines, subtitles, ret, records, srt,
                   tsCall, pc, otherVars>>

\* ParseFromReader returning the records parsed so far with the error.
BlockFailure_Partial(subs, err) ==
    [subs |-> subs, err |-> Wrap("failed to parse subtitle block", err)]

\* What ParseFromReader returns when a block fails to parse.
BlockFailure(subs, err) ==
    [subs |-> <<>>, err |-> Wrap("failed to parse subtitle block", err)]

\* The scan skipping a timestamp-shaped line that fails to parse.
ScanBlock_SkipInvalid ==
    /\ pc = "scan"
    /\ i < Len(lines)
    /\ lines[i + 1] # <<>>
    /\ isTimestampLine(lines[i + 1])
    /\ LET block == parseSubtitleBlock(lines, i)
       IN  IF block.err # NoErr
           THEN /\ i' = i + 1
                /\ UNCHANGED <<ret, pc, subtitles>>
           ELSE /\ subtitles' = Append(subtitles, block.sub)
                /\ i' = (block.next - 1) + 1
                /\ UNCHANGED <<ret, pc>>
    /\ UNCHANGED <<reader, readFails, lines, records, srt, tsCall, otherVars>>

\* The scan going on from the last line of the block, not from the line
\* after it.
ScanBlock_SameLine ==
    /\ pc = "scan"
    /\ i < Len(lines)
    /\ lines[i + 1] # <<>>
    /\ isTimestampLine(lines[i + 1])
    /\ LET block == parseSubtitleBlock(lines, i)
       IN  IF block.err # NoErr
           THEN /\ ret' = BlockFailure(subtitles, block.err)
                /\ pc' = "returned"
                /\ UNCHANGED <<i, subtitles>>
           ELSE /\ subtitles' = Append(subtitles, block.sub)
                /\ i' = block.next - 1
                /\ UNCHANGED <<ret, pc>>
    /\ UNCHANGED <<reader, readFails, lines, records, srt, tsCall, otherVars>>

\* The scan meets a timestamp-shaped line: the block is parsed and
\* appended, or the call returns the error.
ScanBlock ==
    /\ pc = "scan"
    /\ i < Len(lines)
    /\ lines[i + 1] # <<>>
    /\ isTimestampLine(lines[i + 1])
    /\ LET block == parseSubtitleBlock(lines, i)
       IN  IF block.err # NoErr
           THEN /\ ret' = BlockFailure(subtitles, block.err)
                /\ pc' = "returned"
                /\ UNCHANGED <<i, subtitles>>
           ELSE /\ subtitles' = Append(subtitles, block.sub)
                /\ i' = (block.next - 1) + 1
                /\ UNCHANGED <<ret, pc>>
    /\ UNCHANGED <<reader, readFails, lines, records, srt, tsCall, otherVars>>

\* The scan is past the last line: the records are returned.
ScanEnd ==
    /\ pc = "scan"
    /\ i >= Len(lines)
    /\ ret' = [subs |-> subtitles, err |-> NoErr]
    /\ pc' = "returned"
    /\ UNCHANGED <<reader, readFails, lines, i, subtitles, records, srt,
                   tsCall, otherVars>>

\* The loop of ParseFromReader run to its return, from index k.
RECURSIVE ScanFrom(_, _, _)
ScanFrom(ls, k, subs) ==
    IF k >= Len(ls) THEN [subs |-> subs, err |-> NoErr]
    ELSE IF ls[k + 1] = <<>> THEN ScanFrom(ls, k + 1, subs)
    ELSE IF isTimestampLine(ls[k + 1])
    THEN LET block == parseSubtitleBlock(ls, k)
         IN  IF block.err # NoErr THEN BlockFailure(subs, block.err)
             ELSE ScanFrom(ls, block.next, Append(subs, block.sub))
    ELSE ScanFrom(ls, k + 1, subs)

\* ParseFromReader as a function of what a reader that does not fail yields.
ParseFromReader(r) == ScanFrom(ReadLines(r), 0, <<>>)

(***************************************************************************)
(* ConvertToSRT, called on the parsed records or on the caller's list      *)
(***************************************************************************)
Convert ==
    /\ \/ pc = "returned" /\ ret.err = NoErr /\ records' = ret.subs
       \/ pc = "given" /\ records' = records
    /\ srt' = ConvertToSRT(records')
    /\ pc' = "converted"
    /\ UNCHANGED <<reader, readFails, lines, i, subtitles, ret, tsCall,
                   otherVars>>

(***************************************************************************)
(* parseTimestamps, called directly                                        *)
(***************************************************************************)
CallParseTimestamps ==
    /\ pc = "parseTimestamps"
    /\ tsCall' = [tsCall EXCEPT !.out = parseTimestamps(tsCall.line)]
    /\ pc' = "parsedTimestamps"
    /\ UNCHANGED <<reader, readFails, lines, i, subtitles, ret, records, srt,
                   otherVars>>

(***************************************************************************)
(* formatSRTTime, called directly                                          *)
(***************************************************************************)
CallFormatSRTTime ==
    /\ pc = "formatSRTTime"
    /\ fmtCall' = [fmtCall EXCEPT !.out = formatSRTTime(fmtCall.d)]
    /\ pc' = "formattedTime"
    /\ UNCHANGED <<reader, readFails, lines, i, subtitles, ret, records, srt,
                   tsCall, fileVars, outCall>>

(***************************************************************************)
(* ParseFromFile                                                           *)
(***************************************************************************)
\* ParseFromFile returning the error of os.Open without its cause.
OpenForParse_CauseDropped ==
    /\ pc = "ParseFromFile"
    /\ LET err == Open(disk, path)
       IN  IF err # NoErr
           THEN /\ fret' = [subs |-> <<>>,
                            err |-> Errorf("failed to open file", path)]
                /\ pc' = "fileReturned"
                /\ UNCHANGED fds
           ELSE /\ fds' = Append(fds, Handle(path, "O_RDONLY"))
                /\ pc' = "fileOpened"
                /\ UNCHANGED fret
    /\ UNCHANGED <<directVars, records, srt, disk, path, wret, sink,
                   writeFails, cli>>

\* os.Open: the call returns the error, or holds the file.
OpenForParse ==
    /\ pc = "ParseFromFile"
    /\ LET err == Open(disk, path)
       IN  IF err # NoErr
           THEN /\ fret' = [subs |-> <<>>,
                            err |-> Wrap("failed to open file", err)]
                /\ pc' = "fileReturned"
                /\ UNCHANGED fds
           ELSE /\ fds' = Append(fds, Handle(path, "O_RDONLY"))
                /\ pc' = "fileOpened"
                /\ UNCHANGED fret
    /\ UNCHANGED <<directVars, records, srt, disk, path, wret, sink,
                   writeFails, cli>>

\* ParseFromReader(file): reading a directory fails.
ParseOpened ==
    /\ pc = "fileOpened"
    /\ fret' = IF Entry(disk, path).kind = "dir"
               THEN ReadFailureOf(Errorf(EISDIR, path))
               ELSE ParseFromReader(ScanLines(Entry(disk, path).text))
    /\ pc' = "fileParsed"
    /\ UNCHANGED <<directVars, records, srt, disk, fds, path, wret, sink,
                   writeFails, cli>>

\* The deferred call closing the file only when the parse succeeded.
CloseParsed_OnSuccessOnly ==
    /\ pc = "fileParsed"
    /\ fds' = IF fret.err = NoErr THEN CloseLast(fds) ELSE fds
    /\ pc' = "fileReturned"
    /\ UNCHANGED <<directVars, records, srt, disk, path, fret, wret, sink,
                   writeFails, cli>>

\* The deferred call: the file is closed, and ParseFromFile returns.
CloseParsed ==
    /\ pc = "fileParsed"
    /\ fds' = CloseLast(fds)
    /\ pc' = "fileReturned"
    /\ UNCHANGED <<directVars, records, srt, disk, path, fret, wret, sink,
                   writeFails, cli>>

(***************************************************************************)
(* WriteToFile and WriteToWriter                                           *)
(***************************************************************************)
\* os.Create: the call returns the error, or holds the file, now empty.
CreateForWrite ==
    /\ pc = "WriteToFile"
    /\ LET err == Create(disk, path)
       IN  IF err # NoErr
           THEN /\ wret' = Wrap("failed to create file", err)
                /\ pc' = "writeReturned"
                /\ UNCHANGED <<disk, fds>>
           ELSE /\ disk' = Stored(disk, path, <<>>)
                /\ fds' = Append(fds, Handle(path, "O_RDWR"))
                /\ pc' = "fileCreated"
                /\ UNCHANGED wret
    /\ UNCHANGED <<directVars, records, srt, path, fret, sink, writeFails,
                   cli>>

\* The writes of a WriteToWriter call applied to a file, in order.
RECURSIVE StoredAll(_, _, _, _)
StoredAll(d, writer, text, writes) ==
    IF writes = <<>> THEN Stored(d, writer.path, text)
    ELSE StoredAll(d, writer, text \o Accepted(writer, writes[1]),
                   Tail(writes))

\* WriteToWriter(subtitles, file)
WriteCreated ==
    /\ pc = "fileCreated"
    /\ LET file == FileWriter(path, writeFails)
           w == WriteToWriter(records, file)
       IN  /\ srt' = ConvertToSRT(records)
           /\ sink' = sink \o w.writes
           /\ disk' = StoredAll(disk, file, <<>>, w.writes)
           /\ wret' = w.err
    /\ pc' = "fileWritten"
    /\ UNCHANGED <<directVars, records, fds, path, fret, writeFails, cli>>

\* The deferred call: the file is closed, and WriteToFile returns.
CloseWritten ==
    /\ pc = "fileWritten"
    /\ fds' = CloseLast(fds)
    /\ pc' = "writeReturned"
    /\ UNCHANGED <<directVars, records, srt, disk, path, fret, wret, sink,
                   writeFails, cli>>

\* WriteToWriter, called with a writer that is not a file.
CallWriteToWriter ==
    /\ pc = "WriteToWriter"
    /\ LET w == WriteToWriter(records, OtherWriter(writeFails))
       IN  /\ srt' = ConvertToSRT(records)
           /\ sink' = sink \o w.writes
           /\ wret' = w.err
    /\ pc' = "writerReturned"
    /\ UNCHANGED <<directVars, records, disk, fds, path, fret, writeFails,
                   cli>>

(***************************************************************************)
(* convertSbvToSrt (package cmd)                                           *)
(***************************************************************************)
\* What convertSbvToSrt returns: nil, or the error of a step, wrapped.
Returned(c, msg, err) ==
    [c EXCEPT !.step = "done",
              !.err = IF err # NoErr THEN Wrap(msg, err) ELSE NoErr]

\* determineOutputPath, called by itself.
CallDetermineOutputPath ==
    /\ pc = "determineOutputPath"
    /\ LET o == determineOutputPath(disk, outCall.input, outCall.output)
       IN  outCall' = [outCall EXCEPT !.path = o.path, !.err = o.err]
    /\ pc' = "determinedPath"
    /\ UNCHANGED <<reader, readFails, lines, i, subtitles, ret, records, srt,
                   tsCall, fmtCall, fileVars>>

\* validateInputFile(inputFile)
CliValidate ==
    /\ cli.step = "start"
    /\ LET v == validateInputFile(disk, cli.input)
       IN  /\ fds' = fds \o v.handles
           /\ cli' = IF v.err # NoErr
                     THEN Returned(cli, "input validation failed", v.err)
                     ELSE [cli EXCEPT !.step = "validated"]
    /\ UNCHANGED <<directVars, records, srt, pc, disk, path, fret, wret,
                   sink, writeFails>>

\* determineOutputPath(inputFile, outputFile)
CliDetermine ==
    /\ cli.step = "validated"
    /\ LET o == determineOutputPath(disk, cli.input, cli.output)
       IN  cli' = IF o.err # NoErr
                  THEN Returned(cli, "output path determination failed",
                                o.err)
                  ELSE [cli EXCEPT !.step = "determined",
                                   !.outputPath = o.path]
    /\ UNCHANGED <<directVars, records, srt, pc, disk, fds, path, fret, wret,
                   sink, writeFails>>

\* converter.ParseFromFile(inputFile) is called.
CliParse ==
    /\ cli.step = "determined"
    /\ path' = cli.input
    /\ pc' = "ParseFromFile"
    /\ cli' = [cli EXCEPT !.step = "parse"]
    /\ UNCHANGED <<directVars, records, srt, disk, fds, fret, wret, sink,
                   writeFails>>

\* convertSbvToSrt going on to WriteToFile whatever ParseFromFile returned.
CliParsed_WritesAnyway ==
    /\ cli.step = "parse"
    /\ pc = "fileReturned"
    /\ records' = fret.subs
    /\ path' = cli.outputPath
    /\ pc' = "WriteToFile"
    /\ cli' = [cli EXCEPT !.step = "write"]
    /\ UNCHANGED <<directVars, srt, disk, fds, fret, wret, sink, writeFails>>

\* ParseFromFile has returned: its error is returned, or
\* converter.WriteToFile(subtitles, outputPath) is called.
CliParsed ==
    /\ cli.step = "parse"
    /\ pc = "fileReturned"
    /\ IF fret.err # NoErr
       THEN /\ cli' = Returned(cli, "failed to parse SBV file", fret.err)
            /\ UNCHANGED <<records, path, pc>>
       ELSE /\ records' = fret.subs
            /\ path' = cli.outputPath
            /\ pc' = "WriteToFile"
            /\ cli' = [cli EXCEPT !.step = "write"]
    /\ UNCHANGED <<directVars, srt, disk, fds, fret, wret, sink, writeFails>>

\* WriteToFile has returned: convertSbvToSrt returns its error, or nil.
CliWritten ==
    /\ cli.step = "write"
    /\ pc = "writeReturned"
    /\ cli' = Returned(cli, "failed to write SRT file", wret)
    /\ UNCHANGED <<directVars, records, srt, pc, disk, fds, path, fret, wret,
                   sink, writeFails>>

Next ==
    \/ Read
    \/ ScanBlank
    \/ ScanOther
    \/ ScanBlock
    \/ ScanEnd
    \/ Convert
    \/ CallParseTimestamps
    \/ CallFormatSRTTime
    \/ OpenForParse
    \/ ParseOpened
    \/ CloseParsed
    \/ CreateForWrite
    \/ WriteCreated
    \/ CloseWritten
    \/ CallWriteToWriter
    \/ CliValidate
    \/ CliDetermine
    \/ CliParse
    \/ CliParsed
    \/ CliWritten
    \/ CallDetermineOutputPath

Spec == Init /\ [][Next]_vars

(***************************************************************************)
(* Reading an SRT text back, for the properties of the formatter.  The     *)
(* reader below is written from the SRT layout, not from the formatter.    *)
(***************************************************************************)
\* The character at position p, or "" outside the text.
At(s, p) == IF p \in 1..Len(s) THEN s[p] ELSE ""

\* The n characters from position p on (fewer at the end of the text).
Seg(s, p, n) == [k \in 1..n |-> At(s, p + k - 1)]

\* The value of a decimal digit, -1000000 for any other character.
DigitOf(c) ==
    CASE c = "0" -> 0 [] c = "1" -> 1 [] c = "2" -> 2 [] c = "3" -> 3
      [] c = "4" -> 4 [] c = "5" -> 5 [] c = "6" -> 6 [] c = "7" -> 7
      [] c = "8" -> 8 [] c = "9" -> 9 [] OTHER -> -1000000

\* The number written in the n digits from position p on.
RECURSIVE NumberAt(_, _, _)
NumberAt(s, p, n) ==
    IF n = 0 THEN 0
    ELSE 10 * NumberAt(s, p, n - 1) + DigitOf(At(s, p + n - 1))

\* The milliseconds that HH:MM:SS,mmm at position p stands for, -1 when
\* the separators are not in their places.
SrtTimeAt(s, p) ==
    IF At(s, p + 2) = ":" /\ At(s, p + 5) = ":" /\ At(s, p + 8) = ","
    THEN NumberAt(s, p, 2) * 3600000 + NumberAt(s, p + 3, 2) * 60000
         + NumberAt(s, p + 6, 2) * 1000 + NumberAt(s, p + 9, 3)
    ELSE -1

\* The width of a sequence number.
NumWidth(k) == IF k < 10 THEN 1 ELSE IF k < 100 THEN 2 ELSE 3

\* The length of the k-th block of the SRT text of recs, and where it
\* starts: the number, a newline, two times of 12 characters around
\* " --> ", a newline, the text, two newlines.
BlockLen(recs, k) == NumWidth(k) + 1 + 12 + 5 + 12 + 1 + Len(recs[k].Text) + 2

RECURSIVE BlockStart(_, _)
BlockStart(recs, k) ==
    IF k = 1 THEN 1 ELSE BlockStart(recs, k - 1) + BlockLen(recs, k - 1)

\* Where the start time, the end time and the text of block k are.
StartPos(recs, k) == BlockStart(recs, k) + NumWidth(k) + 1

EndPos(recs, k) == StartPos(recs, k) + 12 + 5

TextPos(recs, k) == EndPos(recs, k) + 12 + 1

Arrow == <<" ", "-", "-", ">", " ">>

(***************************************************************************)
(* C1: round trip on time values.  Once ConvertToSRT has run, the HH, MM,  *)
(* SS and mmm fields it wrote for the start and for the end of every       *)
(* record, read back as hours*3600000 + minutes*60000 + seconds*1000 +     *)
(* milliseconds, are the start and end the record holds (for parsed input: *)
(* the values the parser computed from the SBV timestamp line).            *)
(***************************************************************************)
C1_RoundTripTimes ==
    pc = "converted" =>
        \A k \in 1..Len(records) :
            /\ SrtTimeAt(srt, StartPos(records, k)) = records[k].StartTime
            /\ SrtTimeAt(srt, EndPos(records, k)) = records[k].EndTime

\* A parsed record 1:30:15.500 --> 0:00:08.200 has been formatted.
C1_Witness ==
    /\ pc = "converted"
    /\ reader # <<>>
    /\ records = ret.subs
    /\ \E k \in 1..Len(records) :
           /\ records[k].StartTime = 5415500
           /\ records[k].EndTime = 8200

(***************************************************************************)
(* C2: the SRT text is, block after block, the decimal sequence number, a  *)
(* newline, "<start> --> <end>", a newline, the record's text unchanged    *)
(* and two newlines, and nothing else; the one record {1s, 4s, "X"} gives  *)
(* exactly "1\n00:00:01,000 --> 00:00:04,000\nX\n\n".                      *)
(***************************************************************************)
C2_Example ==
    <<"1", "\n", "0", "0", ":", "0", "0", ":", "0", "1", ",", "0", "0",
    "0", " ", "-", "-", ">", " ", "0", "0", ":", "0", "0", ":", "0", "4",
    ",", "0", "0", "0", "\n", "X", "\n", "\n">>

C2_BlockLayout ==
    pc = "converted" =>
        /\ Len(srt) = BlockStart(records, Len(records) + 1) - 1
        /\ \A k \in 1..Len(records) :
               LET b == BlockStart(records, k)
                   w == NumWidth(k)
                   t == TextPos(records, k)
                   n == Len(records[k].Text)
               IN  /\ \A d \in 0..(w - 1) : DigitOf(At(srt, b + d)) \in 0..9
                   /\ NumberAt(srt, b, w) = k
                   /\ At(srt, b + w) = NL
                   /\ Seg(srt, b + w + 1, 12)
                          = formatSRTTime(records[k].StartTime)
                   /\ Seg(srt, b + w + 13, 5) = Arrow
                   /\ Seg(srt, b + w + 18, 12)
                          = formatSRTTime(records[k].EndTime)
                   /\ At(srt, t - 1) = NL
                   /\ Seg(srt, t, n) = records[k].Text
                   /\ Seg(srt, t + n, 2) = <<NL, NL>>
        /\ (records = <<[StartTime |-> 1000, EndTime |-> 4000,
                         Text |-> <<"X">>]>>) => srt = C2_Example

\* The record {1s, 4s, "X"} alone has been formatted, and so has a list of
\* three records.
C2_Witness ==
    /\ pc = "converted"
    /\ \/ records = <<[StartTime |-> 1000, EndTime |-> 4000,
                       Text |-> <<"X">>]>>
       \/ Len(records) = 3 /\ records[2].Text # <<>>

(***************************************************************************)
(* C3: the k-th block of the SRT text carries the number k and the start,  *)
(* the end and the text of the k-th record handed to ConvertToSRT, so the  *)
(* numbers are 1..N and the blocks keep the order of the list, whatever    *)
(* the times are.                                                          *)
(***************************************************************************)
C3_NumberedInOrder ==
    pc = "converted" =>
        \A k \in 1..Len(records) :
            /\ NumberAt(srt, BlockStart(records, k), NumWidth(k)) = k
            /\ SrtTimeAt(srt, StartPos(records, k)) = records[k].StartTime
            /\ SrtTimeAt(srt, EndPos(records, k)) = records[k].EndTime
            /\ Seg(srt, TextPos(records, k), Len(records[k].Text))
                   = records[k].Text

\* Two records have been formatted, the first starting after the second
\* and ending before it starts.
C3_Witness ==
    /\ pc = "converted"
    /\ Len(records) >= 2
    /\ records[1].StartTime > records[2].StartTime
    /\ records[1].EndTime < records[1].StartTime
    /\ records[1].Text # records[2].Text

(***************************************************************************)
(* Reading an input as blocks, for the properties of the parser.  What a   *)
(* line of the alphabet is comes from the table PipeLines, not from the    *)
(* parser.                                                                 *)
(***************************************************************************)
\* ParseFromReader has returned, and the reader had not failed.
Parsed == pc = "returned" /\ ~readFails

OverAlphabet(r) == \A k \in 1..Len(r) : r[k] \in LineAlphabet

LineInfo(txt) == CHOOSE l \in PipeLines : l.txt = txt

KindAt(r, k) == LineInfo(r[k]).kind

\* Blocks of a valid timestamp line and its text lines, each block at the
\* start of the input or after a blank line; blank lines anywhere else.
WellFormed(r) ==
    \A k \in 1..Len(r) :
        /\ KindAt(r, k) # "bad"
        /\ KindAt(r, k) = "ts" => (k = 1 \/ KindAt(r, k - 1) = "blank")
        /\ KindAt(r, k) = "text" =>
               (k > 1 /\ KindAt(r, k - 1) \in {"ts", "text"})

\* The lines that are timestamp lines, and the j-th of them.
TsIndexes(r) == {k \in 1..Len(r) : KindAt(r, k) = "ts"}

NthTs(r, j) ==
    CHOOSE k \in TsIndexes(r) :
        Cardinality({m \in TsIndexes(r) : m < k}) = j - 1

\* The last text line of the block whose timestamp line is line k (k itself
\* when the block has no text).
LastTextLine(r, k) ==
    CHOOSE e \in k..Len(r) :
        /\ \A m \in (k + 1)..e : KindAt(r, m) = "text"
        /\ (e = Len(r) \/ KindAt(r, e + 1) # "text")

\* Lines as one text: a newline between consecutive lines.
RECURSIVE LinesAsText(_)
LinesAsText(ls) ==
    IF Len(ls) = 0 THEN <<>>
    ELSE IF Len(ls) = 1 THEN ls[1]
    ELSE LinesAsText(SubSeq(ls, 1, Len(ls) - 1)) \o <<NL>> \o ls[Len(ls)]

\* The record a block stands for: the times of its timestamp line, and its
\* text lines (without the white space around each line).
BlockRecord(r, k) ==
    [StartTime |-> LineInfo(r[k]).start,
     EndTime |-> LineInfo(r[k]).end,
     Text |-> LinesAsText([m \in 1..(LastTextLine(r, k) - k) |->
                              LineInfo(r[k + m]).trimmed])]

(***************************************************************************)
(* C4: for an input made of well-formed blocks separated by one or more    *)
(* blank lines, ParseFromReader returns no error and exactly one record    *)
(* per block, in source order, with the two time values of the block's     *)
(* timestamp line and the block's text lines as its text.                  *)
(***************************************************************************)
C4_WellFormedBlocksParsed ==
    (Parsed /\ OverAlphabet(reader) /\ WellFormed(reader)) =>
        /\ ret.err = NoErr
        /\ Len(ret.subs) = Cardinality(TsIndexes(reader))
        /\ \A j \in 1..Len(ret.subs) :
               ret.subs[j] = BlockRecord(reader, NthTs(reader, j))

\* A well-formed input of two blocks, the first with two text lines, two
\* blank lines between them, has been parsed.
C4_Witness ==
    /\ Parsed
    /\ OverAlphabet(reader)
    /\ WellFormed(reader)
    /\ Len(ret.subs) = 2
    /\ \E k \in 1..Len(ret.subs[1].Text) : ret.subs[1].Text[k] = NL
    /\ ret.subs[2].Text # <<>>
    /\ ret.subs[1].StartTime # ret.subs[2].StartTime
    /\ \E k \in 1..(Len(reader) - 1) : reader[k] = <<>> /\ reader[k + 1] = <<>>

(***************************************************************************)
(* C5: the text of a parsed record is its block's text lines, in their     *)
(* order, with one newline between consecutive lines: the block's text is  *)
(* every line after the timestamp line up to the first blank line or the   *)
(* end of the input, the text has no newline at its start or end, and no   *)
(* blank line is part of it.                                               *)
(***************************************************************************)
C5_TextIsJoinedLines ==
    [][(pc = "scan" /\ Len(subtitles') = Len(subtitles) + 1) =>
          LET text == subtitles'[Len(subtitles')].Text
          IN  /\ i' > i
              /\ i' <= Len(lines)
              /\ \A k \in (i + 2)..i' : lines[k] # <<>>
              /\ (i' = Len(lines) \/ lines[i' + 1] = <<>>)
              /\ text = LinesAsText(SubSeq(lines, i + 2, i'))
              /\ At(text, 1) # NL
              /\ At(text, Len(text)) # NL
              /\ \A k \in 1..Len(text) :
                     ~(At(text, k) = NL /\ At(text, k + 1) = NL)
       ]_vars

\* A block of two text lines followed by a blank line has been appended.
C5_Witness ==
    /\ pc = "scan"
    /\ Len(subtitles) >= 1
    /\ subtitles[Len(subtitles)].Text = <<"X", NL, "y", ":">>
    /\ i < Len(lines)
    /\ lines[i + 1] = <<>>

(***************************************************************************)
(* Reading a timestamp line of the token tables back into its fields.      *)
(***************************************************************************)
DescOf(line) == (CHOOSE r \in RichTable : r.txt = line).desc

TimeFields(t) == <<t.h, t.m, t.s, t.ms>>

\* The bounds of the four fields, and the message for a value outside.
FieldBounds ==
    << [lo |-> 0, hi |-> 23, msg |-> "hours out of range (0-23)"],
       [lo |-> 0, hi |-> 59, msg |-> "minutes out of range (0-59)"],
       [lo |-> 0, hi |-> 59, msg |-> "seconds out of range (0-59)"],
       [lo |-> 0, hi |-> 999, msg |-> "milliseconds out of range (0-999)"] >>

AllInt(t) == \A f \in 1..4 : TimeFields(t)[f].int

FieldInRange(t, f) ==
    /\ TimeFields(t)[f].val >= FieldBounds[f].lo
    /\ TimeFields(t)[f].val <= FieldBounds[f].hi

InRange(t) == \A f \in 1..4 : FieldInRange(t, f)

FirstOutOfRange(t) ==
    CHOOSE f \in 1..4 :
        ~FieldInRange(t, f) /\ \A g \in 1..(f - 1) : FieldInRange(t, g)

\* The error ParseFromReader returns for an out-of-range field of the
\* start (or end) time: the message names the field, with its value.
RangeError(which, t) ==
    [chain |-> <<"failed to parse subtitle block",
                 "failed to parse timestamps",
                 which,
                 FieldBounds[FirstOutOfRange(t)].msg>>,
     arg |-> TimeFields(t)[FirstOutOfRange(t)].txt]

(***************************************************************************)
(* C6: a time value of three fields, all integers, is accepted if and only *)
(* if hours is in 0..23, minutes in 0..59, seconds in 0..59 and            *)
(* milliseconds in 0..999; otherwise the parse fails and the error names   *)
(* the (first) field outside its bound and its value.  The line            *)
(* "0:60:01.000,0:00:04.000" fails naming the minutes and the value 60.    *)
(***************************************************************************)
\* The line "0:60:01.000,0:00:04.000".
MinutesSixtyLine ==
    <<"0", ":", "6", "0", ":", "0", "1", ".", "0", "0", "0", ",",
      "0", ":", "0", "0", ":", "0", "4", ".", "0", "0", "0">>

C6_FieldRanges ==
    /\ (Parsed /\ Len(reader) = 1 /\ reader[1] \in RichLines) =>
           LET d == DescOf(reader[1])
           IN  (AllInt(d.first) /\ AllInt(d.second)) =>
                   /\ ret.err = NoErr <=>
                          (InRange(d.first) /\ InRange(d.second))
                   /\ ~InRange(d.first) =>
                          /\ ret.err = RangeError("failed to parse start time",
                                                  d.first)
                          /\ ret.subs = <<>>
                   /\ (InRange(d.first) /\ ~InRange(d.second)) =>
                          /\ ret.err = RangeError("failed to parse end time",
                                                  d.second)
                          /\ ret.subs = <<>>
    /\ (Parsed
        /\ reader = <<MinutesSixtyLine>>) =>
           /\ ret.err.chain = <<"failed to parse subtitle block",
                                "failed to parse timestamps",
                                "failed to parse start time",
                                "minutes out of range (0-59)">>
           /\ ret.err.arg = <<"6", "0">>

\* A line of integer fields whose minutes alone are out of range (60) has
\* been rejected.
C6_Witness ==
    /\ Parsed
    /\ Len(reader) = 1
    /\ reader[1] \in RichLines
    /\ AllInt(DescOf(reader[1]).first)
    /\ \A f \in {1, 3, 4} : FieldInRange(DescOf(reader[1]).first, f)
    /\ DescOf(reader[1]).first.m.val = 60
    /\ ret.err.arg = <<"6", "0">>

(***************************************************************************)
(* C7: parsing is all-or-nothing.  ParseFromReader never returns records   *)
(* together with an error, and when a line the scan treats as a timestamp  *)
(* line fails to parse (here: a bad timestamp line at the start of the     *)
(* input or after a blank line) it returns an error and no records,        *)
(* however many blocks were parsed before.                                 *)
(***************************************************************************)
C7_AllOrNothing ==
    /\ (pc \in {"returned", "converted"} /\ ret.err # NoErr) => ret.subs = <<>>
    /\ (pc = "returned" /\ OverAlphabet(reader)
        /\ \E k \in 1..Len(reader) :
               /\ KindAt(reader, k) = "bad"
               /\ (k = 1 \/ KindAt(reader, k - 1) = "blank")) =>
           (ret.err # NoErr /\ ret.subs = <<>>)

\* The call has returned an error after it had parsed a block.
C7_Witness ==
    /\ pc = "returned"
    /\ ret.err # NoErr
    /\ Len(subtitles) >= 1
    /\ ret.subs = <<>>

(***************************************************************************)
(* C8: an input with no lines, with blank lines only, or without any line  *)
(* that has both a comma and a colon gives an empty record list and no     *)
(* error, and ConvertToSRT of an empty list is the empty text.             *)
(***************************************************************************)
Count(s, c) == Cardinality({k \in 1..Len(s) : s[k] = c})

C8_EmptyInput ==
    /\ (Parsed
        /\ \A k \in 1..Len(reader) :
               Count(reader[k], ",") = 0 \/ Count(reader[k], ":") = 0) =>
           ret = [subs |-> <<>>, err |-> NoErr]
    /\ (pc = "converted" /\ records = <<>>) => srt = <<>>

\* An input of blank lines and of text lines has been parsed and formatted.
C8_Witness ==
    /\ pc = "converted"
    /\ \E k \in 1..Len(reader) : reader[k] = <<>>
    /\ \E k \in 1..Len(reader) : reader[k] = <<" ", "y", ":">>
    /\ \A k \in 1..Len(reader) :
           Count(reader[k], ",") = 0 \/ Count(reader[k], ":") = 0
    /\ srt = <<>>

(***************************************************************************)
(* Counting the separators of a timestamp line.                            *)
(***************************************************************************)
\* The parts before and after the only comma of a line.
CommaPos(l) == CHOOSE k \in 1..Len(l) : l[k] = ","

FirstPart(l) == SubSeq(l, 1, CommaPos(l) - 1)

SecondPart(l) == SubSeq(l, CommaPos(l) + 1, Len(l))

\* What follows the last colon of a time value.
AfterLastColon(t) ==
    LET last == CHOOSE k \in 1..Len(t) :
                    t[k] = ":" /\ \A j \in (k + 1)..Len(t) : t[j] # ":"
    IN  SubSeq(t, last + 1, Len(t))

\* Three fields; and a third field of two subfields.
ColonsOK(t) == Count(t, ":") = 2

DotsOK(t) == ColonsOK(t) /\ Count(AfterLastColon(t), ".") = 1

LastMsg(e) == IF e.chain = <<>> THEN "" ELSE e.chain[Len(e.chain)]

FirstMsg(e) == IF e.chain = <<>> THEN "" ELSE e.chain[1]

\* What parseTimestamps owes a line l, e being the error it returned.
StructureChecked(l, e) ==
    /\ Count(l, ",") # 1 =>
           e = [chain |-> <<"invalid timestamp format">>, arg |-> l]
    /\ LastMsg(e) = "invalid timestamp format" => Count(l, ",") # 1
    /\ Count(l, ",") = 1 =>
           /\ ~ColonsOK(FirstPart(l)) =>
                  e.chain = <<"failed to parse start time",
                              "invalid time format">>
           /\ (~DotsOK(FirstPart(l)) \/ ~DotsOK(SecondPart(l))) => e # NoErr
           /\ LastMsg(e) = "invalid time format" =>
                  \/ /\ FirstMsg(e) = "failed to parse start time"
                     /\ ~ColonsOK(FirstPart(l))
                  \/ /\ FirstMsg(e) = "failed to parse end time"
                     /\ ~ColonsOK(SecondPart(l))
           /\ LastMsg(e) = "invalid seconds format" =>
                  \/ /\ FirstMsg(e) = "failed to parse start time"
                     /\ ColonsOK(FirstPart(l)) /\ ~DotsOK(FirstPart(l))
                  \/ /\ FirstMsg(e) = "failed to parse end time"
                     /\ ColonsOK(SecondPart(l)) /\ ~DotsOK(SecondPart(l))

\* The error of parseTimestamps inside the error of ParseFromReader.
InnerErr(e) ==
    IF Len(e.chain) >= 2
       /\ SubSeq(e.chain, 1, 2) = <<"failed to parse subtitle block",
                                    "failed to parse timestamps">>
    THEN [chain |-> SubSeq(e.chain, 3, Len(e.chain)), arg |-> e.arg]
    ELSE NoErr

(***************************************************************************)
(* C9: parseTimestamps fails unless the line splits on ',' into exactly    *)
(* two parts, and parseTime fails unless the time value splits on ':' into *)
(* exactly three fields and its third field on '.' into exactly two.       *)
(* Checked on direct calls of parseTimestamps (lines without a comma       *)
(* included), on the error of every failed ParseFromReader, and on every   *)
(* one-line input that is timestamp-shaped.                                *)
(***************************************************************************)
C9_Structure ==
    /\ pc = "parsedTimestamps" => StructureChecked(tsCall.line, tsCall.out.err)
    /\ (Parsed /\ ret.err # NoErr) =>
           /\ InnerErr(ret.err) # NoErr
           /\ StructureChecked(lines[i + 1], InnerErr(ret.err))
    /\ (Parsed /\ Len(lines) = 1
        /\ Count(lines[1], ",") >= 1 /\ Count(lines[1], ":") >= 1) =>
           StructureChecked(lines[1], InnerErr(ret.err))

\* A line whose first time value has two dots in its third field has been
\* rejected for its seconds format.
C9_Witness ==
    /\ Parsed
    /\ reader = << <<"1", ":", "3", "0", ":", "4", "5", ".", "5", ".", "0",
               "0", ",", "0", ":", "0", "0", ":", "0", "4", ".", "0", "0",
               "0">> >>
    /\ LastMsg(ret.err) = "invalid seconds format"

(***************************************************************************)
(* C10: a line that is not blank, does not have both ',' and ':', and is   *)
(* met outside a block is skipped without error: ParseFromReader returns   *)
(* what it returns for the input without that line (so the line makes no   *)
(* record and is in no record's text).                                     *)
(***************************************************************************)
BlankLine(l) == \A k \in 1..Len(l) : l[k] \in {" ", "\t", "\r"}

StrayLine(l) ==
    ~BlankLine(l) /\ (Count(l, ",") = 0 \/ Count(l, ":") = 0)

\* Line k is not in a block: the scan reaches it from the start of the
\* input, from a blank line, or from another such line.
RECURSIVE OutsideBlock(_, _)
OutsideBlock(r, k) ==
    \/ k = 1
    \/ BlankLine(r[k - 1])
    \/ StrayLine(r[k - 1]) /\ OutsideBlock(r, k - 1)

RemoveAt(r, k) ==
    [j \in 1..(Len(r) - 1) |-> IF j < k THEN r[j] ELSE r[j + 1]]

C10_StrayLineSkipped ==
    Parsed =>
        \A k \in 1..Len(reader) :
            (StrayLine(reader[k]) /\ OutsideBlock(reader, k)) =>
                ret = ParseFromReader(RemoveAt(reader, k))

\* A block has been parsed, and after the blank line that ends it the scan
\* has met a line of text.
C10_Witness ==
    /\ Parsed
    /\ Len(ret.subs) >= 1
    /\ \E k \in 3..Len(reader) :
           /\ StrayLine(reader[k])
           /\ BlankLine(reader[k - 1])
           /\ ~BlankLine(reader[1]) /\ ~StrayLine(reader[1])

(***************************************************************************)
(* Which lines are valid timestamp pairs, from the tables of the inputs.   *)
(***************************************************************************)
\* The line "0:00:01.000 , 0:00:04.000": valid, the parts being trimmed.
SpacedLine ==
    <<"0", ":", "0", "0", ":", "0", "1", ".", "0", "0", "0", " ", ",",
      " ", "0", ":", "0", "0", ":", "0", "4", ".", "0", "0", "0">>

\* The line "Note: a, b".
NoteLine == <<"N", "o", "t", "e", ":", " ", "a", ",", " ", "b">>

ValidPair(l) ==
    \/ \E p \in PipeLines : p.trimmed = l /\ p.kind = "ts"
    \/ /\ l \in RichLines
       /\ AllInt(DescOf(l).first) /\ InRange(DescOf(l).first)
       /\ AllInt(DescOf(l).second) /\ InRange(DescOf(l).second)
    \/ l = SpacedLine
    \/ \E f \in ShortFractions : f.txt = l

Shaped(l) == Count(l, ",") >= 1 /\ Count(l, ":") >= 1

(***************************************************************************)
(* C11: when the scan, outside a block, meets a non-blank line, the line   *)
(* starts a block if and only if it has at least one ',' and at least one  *)
(* ':'.  Such a line that is a valid timestamp pair appends a record; one  *)
(* that is not (e.g. "Note: a, b") makes ParseFromReader return an error   *)
(* and no records; it is never skipped.  Any other non-blank line is       *)
(* skipped.                                                                *)
(***************************************************************************)
C11_ShapedLineStartsBlock ==
    /\ [][(pc = "scan" /\ i < Len(lines) /\ lines[i + 1] # <<>>) =>
             IF Shaped(lines[i + 1])
             THEN IF ValidPair(lines[i + 1])
                  THEN /\ pc' = "scan"
                       /\ Len(subtitles') = Len(subtitles) + 1
                       /\ i' > i
                  ELSE /\ pc' = "returned"
                       /\ ret'.err # NoErr
                       /\ ret'.subs = <<>>
             ELSE /\ pc' = "scan"
                  /\ subtitles' = subtitles
                  /\ i' = i + 1
         ]_vars
    /\ [](Parsed => (ret.err # NoErr <=>
                        \E k \in 1..Len(lines) :
                            Shaped(lines[k]) /\ ~ValidPair(lines[k])
                            /\ OutsideBlock(reader, k)))

\* After a block and a blank line the scan has met "Note: a, b", and the
\* call has returned an error.
C11_Witness ==
    /\ Parsed
    /\ Len(reader) = 4
    /\ reader[4] = NoteLine
    /\ Len(subtitles) = 1
    /\ ret.err # NoErr
    /\ ret.subs = <<>>

(***************************************************************************)
(* The time value under test of a line of the token tables, and the first  *)
(* of its fields that parseTime rejects.                                   *)
(***************************************************************************)
TimeUnderTest(d) == IF d.second = FixedTime THEN d.first ELSE d.second

\* Which of the two time values it is.
WhichTime(d) ==
    IF d.second = FixedTime THEN "failed to parse start time"
    ELSE "failed to parse end time"

FieldOK(t, f) == TimeFields(t)[f].int /\ FieldInRange(t, f)

FirstBad(t) ==
    CHOOSE f \in 1..4 : ~FieldOK(t, f) /\ \A g \in 1..(f - 1) : FieldOK(t, g)

\* The field is written with a leading '-'.
Negative(tok) == At(tok.txt, 1) = "-"

\* The messages for a field that is not an integer.
InvalidMsg ==
    <<"invalid hours", "invalid minutes", "invalid seconds",
      "invalid milliseconds">>

\* The value of a time whose fields are all accepted.
TimeValue(t) ==
    t.h.val * 3600000 + t.m.val * 60000 + t.s.val * 1000 + t.ms.val

OneRichLine == Parsed /\ Len(reader) = 1 /\ reader[1] \in RichLines

(***************************************************************************)
(* C12 as stated: a time field written with a leading '-' (the fields      *)
(* before it being accepted) is rejected with the 'invalid <field>' error  *)
(* of a field that is not an integer.                                      *)
(***************************************************************************)
C12_NegativeIsParseFailure ==
    OneRichLine =>
        LET t == TimeUnderTest(DescOf(reader[1]))
        IN  \A f \in 1..4 :
                (Negative(TimeFields(t)[f])
                 /\ \A g \in 1..(f - 1) : FieldOK(t, g)) =>
                    LastMsg(ret.err) = InvalidMsg[f]

(***************************************************************************)
(* C12, amended: a time field written as '-' and decimal digits is read    *)
(* as an integer, the negative of the digits.  When the fields before it   *)
(* are accepted, a value below zero is rejected as out of range (the       *)
(* '<field> out of range' error, with the value), never with the 'invalid  *)
(* <field>' error, which is returned for a field that is not an integer;   *)
(* "-0" is the value 0 and is accepted.                                    *)
(***************************************************************************)
C12_NegativeIsOutOfRange ==
    OneRichLine =>
        LET d == DescOf(reader[1])
            t == TimeUnderTest(d)
        IN  /\ (\A f \in 1..4 : FieldOK(t, f)) =>
                   /\ ret.err = NoErr
                   /\ Len(ret.subs) = 1
                   /\ TimeValue(t) \in {ret.subs[1].StartTime,
                                        ret.subs[1].EndTime}
            /\ (\E f \in 1..4 : ~FieldOK(t, f)) =>
                   LET f == FirstBad(t)
                       tok == TimeFields(t)[f]
                   IN  /\ ret.subs = <<>>
                       /\ FirstMsg(InnerErr(ret.err)) = WhichTime(d)
                       /\ ret.err.arg = tok.txt
                       /\ LastMsg(ret.err) =
                              IF tok.int THEN FieldBounds[f].msg
                              ELSE InvalidMsg[f]
                       /\ Negative(tok) =>
                              LastMsg(ret.err) = FieldBounds[f].msg

\* The line "-1:30:15.500,1:30:15.500" has been rejected for its hours
\* being out of range.
C12_Witness ==
    /\ OneRichLine
    /\ TimeUnderTest(DescOf(reader[1])).h.txt = <<"-", "1">>
    /\ ret.err.chain = <<"failed to parse subtitle block",
                         "failed to parse timestamps",
                         "failed to parse start time",
                         "hours out of range (0-23)">>
    /\ ret.err.arg = <<"-", "1">>

(***************************************************************************)
(* The fields of a time value, by the places of its separators.            *)
(***************************************************************************)
\* The places of the two colons of a time value, and of the dot after them.
FirstColon(t) ==
    CHOOSE k \in 1..Len(t) : t[k] = ":" /\ Count(SubSeq(t, 1, k), ":") = 1

SecondColon(t) ==
    CHOOSE k \in 1..Len(t) : t[k] = ":" /\ Count(SubSeq(t, 1, k), ":") = 2

DotPlace(t) == CHOOSE k \in (SecondColon(t) + 1)..Len(t) : t[k] = "."

\* The text of field f (hours, minutes, seconds, milliseconds) of a time
\* value with two colons and one dot in its third field.
FieldText(t, f) ==
    CASE f = 1 -> SubSeq(t, 1, FirstColon(t) - 1)
      [] f = 2 -> SubSeq(t, FirstColon(t) + 1, SecondColon(t) - 1)
      [] f = 3 -> SubSeq(t, SecondColon(t) + 1, DotPlace(t) - 1)
      [] f = 4 -> SubSeq(t, DotPlace(t) + 1, Len(t))

\* The line at which ParseFromReader stopped with an error.
OffendingLine == lines[i + 1]

(***************************************************************************)
(* C13 as stated: the error ParseFromReader returns for a malformed        *)
(* timestamp line carries the line (its text, as read or trimmed, or its   *)
(* position, counted from 0 or from 1) and ends in the message of the      *)
(* validation that failed.                                                 *)
(***************************************************************************)
C13_ErrorIdentifiesLine ==
    (Parsed /\ ret.err # NoErr) =>
        /\ \/ ret.err.arg \in {OffendingLine, reader[i + 1]}
           \/ ret.err.arg \in {Itoa(i), Itoa(i + 1)}
        /\ LastMsg(ret.err) \in
               {"invalid timestamp format", "invalid time format",
                "invalid seconds format"}
               \cup {InvalidMsg[f] : f \in 1..4}
               \cup {FieldBounds[f].msg : f \in 1..4}

(***************************************************************************)
(* C13, amended: the error ParseFromReader returns for a malformed         *)
(* timestamp line names the validation that failed and carries the text    *)
(* that validation was applied to: the whole line for a wrong comma count; *)
(* otherwise which of the two time values failed (start or end) and that   *)
(* time value for a wrong colon-field count, its third field for a wrong   *)
(* seconds format, the field for an integer that does not parse or is out  *)
(* of range (hours and minutes are validated before the seconds format).   *)
(* The error does not give the position of the line, and is the same       *)
(* wherever the line stands in the input.                                  *)
(***************************************************************************)
C13_ErrorNamesValidation ==
    /\ (Parsed /\ ret.err # NoErr) =>
           LET l == OffendingLine
               e == InnerErr(ret.err)
           IN  /\ ret.subs = <<>>
               /\ e # NoErr
               /\ IF Count(l, ",") # 1
                  THEN e = [chain |-> <<"invalid timestamp format">>,
                            arg |-> l]
                  ELSE /\ Len(e.chain) = 2
                       /\ e.chain[1] \in {"failed to parse start time",
                                          "failed to parse end time"}
                       /\ e.chain[1] = "failed to parse end time" =>
                              ColonsOK(FirstPart(l)) /\ DotsOK(FirstPart(l))
                       /\ LET part ==
                                IF e.chain[1] = "failed to parse start time"
                                THEN FirstPart(l) ELSE SecondPart(l)
                          IN  IF ~ColonsOK(part)
                              THEN /\ e.chain[2] = "invalid time format"
                                   /\ e.arg = part
                              ELSE \/ \E f \in 1..2 :
                                        /\ e.chain[2] \in {InvalidMsg[f],
                                                           FieldBounds[f].msg}
                                        /\ e.arg = FieldText(part, f)
                                   \/ /\ ~DotsOK(part)
                                      /\ e.chain[2] = "invalid seconds format"
                                      /\ e.arg = AfterLastColon(part)
                                   \/ /\ DotsOK(part)
                                      /\ \E f \in 3..4 :
                                          /\ e.chain[2] \in {InvalidMsg[f],
                                                             FieldBounds[f].msg}
                                          /\ e.arg = FieldText(part, f)
    /\ (Parsed /\ reader \in AfterBlock) =>
           ret.err = ParseFromReader(<<reader[4]>>).err

\* After a block and a blank line, a line whose first time value has four
\* colon-separated fields has been rejected.
C13_Witness ==
    /\ Parsed
    /\ reader \in AfterBlock
    /\ Len(subtitles) = 1
    /\ ret.err.chain = <<"failed to parse subtitle block",
                         "failed to parse timestamps",
                         "failed to parse start time",
                         "invalid time format">>
    /\ ret.err.arg = <<"1", ":", "2", ":", "3", ":", "4", ".", "5", "0", "0">>

(***************************************************************************)
(* C14: formatSRTTime renders a duration t >= 0 (in milliseconds) as       *)
(* HH:MM:SS,mmm with HH = t div 3600000, MM = (t div 60000) mod 60,        *)
(* SS = (t div 1000) mod 60 and mmm = t mod 1000, in decimal digits        *)
(* zero-padded to 2, 2, 2 and 3 (the hours take more digits from 100       *)
(* hours on); below 100 hours the result has exactly 12 characters, ':'    *)
(* at positions 3 and 6 and ',' at position 9.  Read back digit by digit   *)
(* from the result of a direct call.                                       *)
(***************************************************************************)
\* The number of decimal digits of the hours, at least two.
HoursWidth(h) ==
    IF h < 100 THEN 2 ELSE IF h < 1000 THEN 3 ELSE IF h < 10000 THEN 4 ELSE 5

AllDigits(s, p, n) == \A k \in 0..(n - 1) : DigitOf(At(s, p + k)) \in 0..9

C14_FormatFields ==
    (pc = "formattedTime" /\ fmtCall.d >= 0) =>
        LET t == fmtCall.d
            out == fmtCall.out
            w == HoursWidth(t \div 3600000)
        IN  /\ Len(out) = w + 10
            /\ AllDigits(out, 1, w)
            /\ NumberAt(out, 1, w) = t \div 3600000
            /\ At(out, w + 1) = ":"
            /\ AllDigits(out, w + 2, 2)
            /\ NumberAt(out, w + 2, 2) = (t \div 60000) % 60
            /\ At(out, w + 4) = ":"
            /\ AllDigits(out, w + 5, 2)
            /\ NumberAt(out, w + 5, 2) = (t \div 1000) % 60
            /\ At(out, w + 7) = ","
            /\ AllDigits(out, w + 8, 3)
            /\ NumberAt(out, w + 8, 3) = t % 1000
            /\ t < 100 * 3600000 =>
                   /\ Len(out) = 12
                   /\ out[3] = ":" /\ out[6] = ":" /\ out[9] = ","
                   /\ \A k \in 1..12 : out[k] # "."

\* 9:09:10.007 has been formatted: every field needs its zeros.
C14_Witness ==
    /\ pc = "formattedTime"
    /\ fmtCall.d = 9 * 3600000 + 9 * 60000 + 10 * 1000 + 7
    /\ fmtCall.out = <<"0", "9", ":", "0", "9", ":", "1", "0", ",", "0", "0",
                       "7">>

(***************************************************************************)
(* White space at the ends of a line, removed one character at a time.     *)
(***************************************************************************)
WhiteSpace == {" ", "\t", "\r"}

RECURSIVE StripLeft(_)
StripLeft(l) ==
    IF Len(l) > 0 /\ l[1] \in WhiteSpace THEN StripLeft(Tail(l)) ELSE l

RECURSIVE StripRight(_)
StripRight(l) ==
    IF Len(l) > 0 /\ l[Len(l)] \in WhiteSpace
    THEN StripRight(SubSeq(l, 1, Len(l) - 1))
    ELSE l

Stripped(l) == StripRight(StripLeft(l))

\* The lines after the timestamp line (line 1) of a one-block input, up to
\* the first line that is empty or white space only.
RECURSIVE BlockLines(_, _)
BlockLines(r, k) ==
    IF k > Len(r) \/ BlankLine(r[k]) THEN <<>>
    ELSE <<r[k]>> \o BlockLines(r, k + 1)

(***************************************************************************)
(* C15 as stated: the text of a parsed record is its block's source lines  *)
(* verbatim, joined by newlines; white space at the start or end of a text *)
(* line is kept.                                                           *)
(***************************************************************************)
C15_TextLinesVerbatim ==
    (Parsed /\ reader \in SpaceyInputs) =>
        /\ Len(ret.subs) = 1
        /\ ret.subs[1].Text = LinesAsText(BlockLines(reader, 2))

(***************************************************************************)
(* C15, amended: ParseFromReader removes the white space at the start and  *)
(* at the end of every line it reads, and nothing else: each text line of  *)
(* a parsed record is its source line without its leading and trailing     *)
(* spaces, tabs and carriage returns, the characters between them          *)
(* unchanged, and a line of white space only ends the block as an empty    *)
(* line does.                                                              *)
(***************************************************************************)
C15_TextLinesTrimmed ==
    /\ (pc \in {"scan", "returned"} /\ ~readFails) =>
           /\ Len(lines) = Len(reader)
           /\ \A k \in 1..Len(reader) : lines[k] = Stripped(reader[k])
    /\ (Parsed /\ reader \in SpaceyInputs) =>
           LET block == BlockLines(reader, 2)
           IN  /\ ret.err = NoErr
               /\ Len(ret.subs) = 1
               /\ ret.subs[1].Text =
                      LinesAsText([k \in 1..Len(block) |-> Stripped(block[k])])

\* A block whose text lines are " a b<tab>" and "a  " has been parsed to
\* the text "a b\na".
C15_Witness ==
    /\ Parsed
    /\ reader \in SpaceyInputs
    /\ reader[2] = <<" ", "a", " ", "b", "\t">>
    /\ reader[3] = <<"a", " ", " ">>
    /\ ret.subs[1].Text = <<"a", " ", "b", "\n", "a">>

(***************************************************************************)
(* C16                                                                     *)
(***************************************************************************)
\* The errors of the first three steps of convertSbvToSrt, found from the
\* file system and from what ParseFromFile returned.  No step changes the
\* input file or the directories, so they can be found at any step.
ValidationError == validateInputFile(disk, cli.input).err

DeterminationError == determineOutputPath(disk, cli.input, cli.output).err

Reached(steps) == cli.step \in steps

\* A file opened for writing.
Writable(h) == h.flag = "O_RDWR"

\* What convertSbvToSrt returns, by the first step that fails.
FirstFailure ==
    IF ValidationError # NoErr
    THEN Wrap("input validation failed", ValidationError)
    ELSE IF DeterminationError # NoErr
    THEN Wrap("output path determination failed", DeterminationError)
    ELSE IF fret.err # NoErr
    THEN Wrap("failed to parse SBV file", fret.err)
    ELSE IF wret # NoErr
    THEN Wrap("failed to write SRT file", wret)
    ELSE NoErr

\* C16: convertSbvToSrt validates the input, determines the output path,
\* parses and writes, in this order, and returns the error of the first step
\* that fails; ParseFromFile is called only when the first two steps
\* succeeded, WriteToFile only when the first three did, with the records
\* parsed and the path determined; and when one of the first three fails, no
\* file is created, truncated or written.
C16_StepsInOrder ==
    /\ [][/\ Reached({"start", "validated"}) =>
                /\ pc' = "idle"
                /\ disk' = disk
          /\ pc' = "ParseFromFile" /\ pc # "ParseFromFile"
                /\ cli.step # "off" =>
                /\ ValidationError = NoErr
                /\ DeterminationError = NoErr
                /\ path' = cli.input
          /\ pc' = "WriteToFile" /\ pc # "WriteToFile" /\ cli.step # "off" =>
                /\ ValidationError = NoErr
                /\ DeterminationError = NoErr
                /\ fret.err = NoErr
                /\ records' = fret.subs
                /\ path' =
                     determineOutputPath(disk, cli.input, cli.output).path
          /\ disk' # disk /\ cli.step # "off" =>
                /\ cli.step = "write"
                /\ fret.err = NoErr]_vars
    /\ [](Reached({"done"}) =>
            /\ cli.err = FirstFailure
            /\ ValidationError # NoErr \/ DeterminationError # NoErr =>
                 /\ fret = NoReturn
                 /\ Len(fds) = IF ValidationError # NoErr THEN 0 ELSE 1
            /\ \/ ValidationError # NoErr
               \/ DeterminationError # NoErr
               \/ fret.err # NoErr
               => /\ \A k \in 1..Len(fds) : ~Writable(fds[k])
                  /\ sink = <<>>
                  /\ disk \in Disks
                  /\ pc # "writeReturned")

\* The command was given an existing output file and a file that does not
\* parse: it returned the parse error, and the output file is as it was.
C16_Witness ==
    /\ Reached({"done"})
    /\ ValidationError = NoErr
    /\ DeterminationError = NoErr
    /\ fret.err # NoErr
    /\ cli.output = OSrt
    /\ Entry(disk, OSrt) = File(OldText)
    /\ cli.err = Wrap("failed to parse SBV file", fret.err)

(***************************************************************************)
(* C17                                                                     *)
(***************************************************************************)
\* The handles ParseFromFile and WriteToFile opened: those after the one
\* validateInputFile opened and closed, when the command runs.
OwnHandles ==
    SubSeq(fds, (IF cli.step = "off" THEN 1 ELSE 2), Len(fds))

HandlesWith(flag) == SelectSeq(OwnHandles, LAMBDA h : h.flag = flag)

ClosedOnce(h) == ~h.open /\ h.closes = 1

\* C17: when ParseFromFile has returned, by whichever path (open failure,
\* read failure, parse error, success), it has opened no file if os.Open
\* failed and otherwise one file, the one named, which is closed with Close
\* called on it exactly once; the same for WriteToFile and os.Create
\* (create failure, write failure, success).  Before the return the file
\* is open, and Close is never called twice on a handle.
C17_ClosedExactlyOnce ==
    /\ \A k \in 1..Len(fds) : /\ fds[k].closes <= 1
                              /\ fds[k].open <=> fds[k].closes = 0
    /\ pc \in {"fileOpened", "fileParsed"} =>
         /\ Len(HandlesWith("O_RDONLY")) = 1
         /\ HandlesWith("O_RDONLY")[1] = Handle(path, "O_RDONLY")
    /\ pc \in {"fileCreated", "fileWritten"} =>
         /\ Len(HandlesWith("O_RDWR")) = 1
         /\ HandlesWith("O_RDWR")[1] = Handle(path, "O_RDWR")
    /\ pc = "fileReturned" =>
         /\ Len(HandlesWith("O_RDONLY")) =
              IF Entry(disk, path).kind = "none" \/ ~Entry(disk, path).perm
              THEN 0 ELSE 1
         /\ \A k \in 1..Len(fds) : ClosedOnce(fds[k])
         /\ \A k \in 1..Len(OwnHandles) : OwnHandles[k].path = path
    /\ pc = "writeReturned" =>
         /\ Len(HandlesWith("O_RDWR")) =
              IF wret # NoErr /\ wret.chain[1] = "failed to create file"
              THEN 0 ELSE 1
         /\ \A k \in 1..Len(fds) : ClosedOnce(fds[k])
         /\ \A k \in 1..Len(HandlesWith("O_RDWR")) :
               HandlesWith("O_RDWR")[k].path = path

\* The command has run to a write that failed: ParseFromFile closed the
\* input file once on its success path, WriteToFile the output file once on
\* its failure path.
C17_Witness ==
    /\ cli.step = "write"
    /\ pc = "writeReturned"
    /\ wret # NoErr
    /\ wret.chain[1] = "failed to write SRT content"
    /\ Len(HandlesWith("O_RDONLY")) = 1
    /\ Len(HandlesWith("O_RDWR")) = 1
    /\ \A k \in 1..Len(fds) : ClosedOnce(fds[k])

(***************************************************************************)
(* C18                                                                     *)
(***************************************************************************)
\* What the path given to ParseFromFile names.
Named == Entry(disk, path)

\* The last message of an error's chain: its cause.
Cause(e) == e.chain[Len(e.chain)]

\* C18: when ParseFromFile has returned: for a path that cannot be opened
\* (nothing there, or no permission), the nil list and 'failed to open file'
\* wrapping the cause; for one that cannot be read (a directory), the nil
\* list and 'error reading input' wrapping the cause; otherwise exactly what
\* ParseFromReader returns for the lines of the file's content, which for
\* the files of the package's tests are the records and errors listed here.
C18_ParseFromFileResult ==
    pc = "fileReturned" =>
      /\ Named.kind = "none" =>
           fret = [subs |-> <<>>,
                   err |-> [chain |-> <<"failed to open file", ENOENT>>,
                            arg |-> path]]
      /\ Named.kind = "file" /\ ~Named.perm =>
           fret = [subs |-> <<>>,
                   err |-> [chain |-> <<"failed to open file", EACCES>>,
                            arg |-> path]]
      /\ Named.kind = "dir" =>
           fret = [subs |-> <<>>,
                   err |-> [chain |-> <<"error reading input", EISDIR>>,
                            arg |-> path]]
      /\ Named.kind = "file" /\ Named.perm =>
           /\ fret = ParseFromReader(Split(Named.text, NL))
           /\ Named.text = EmptyText => fret = [subs |-> <<>>, err |-> NoErr]
           /\ Named.text = TwoBlocksText =>
                fret = [subs |-> TwoBlocksRecords, err |-> NoErr]
           /\ Named.text = CrLfText =>
                fret = [subs |-> CrLfRecords, err |-> NoErr]
           /\ Named.text = NoTimestampText =>
                fret = [subs |-> <<>>, err |-> NoErr]
           /\ Named.text \in {BadMinutesText, BlockThenBadText} =>
                /\ fret.subs = <<>>
                /\ fret.err # NoErr
                /\ Cause(fret.err) = "minutes out of range (0-59)"

\* ParseFromFile has returned for a path that names nothing, with the cause
\* in its error.
C18_Witness ==
    /\ pc = "fileReturned"
    /\ path = NoSbv
    /\ Named.kind = "none"
    /\ fret.subs = <<>>
    /\ fret.err # NoErr
    /\ Cause(fret.err) = ENOENT

(***************************************************************************)
(* C19                                                                     *)
(***************************************************************************)
\* The text ConvertToSRT returns for the records being written.
Formatted == ConvertToSRT(records)

\* WriteToFile got past os.Create.
Created ==
    /\ pc \in {"fileWritten", "writeReturned"}
    /\ ~(wret # NoErr /\ wret.chain[1] = "failed to create file")

\* The Write on the writer reported an error: any failing writer does, a
\* full device when it is given bytes to store.
WriteReported == writeFails /\ (pc = "writerReturned" \/ Len(Formatted) > 0)

IsPrefix(a, b) == Len(a) <= Len(b) /\ a = SubSeq(b, 1, Len(a))

\* The record {1 s, 4 s, "X"} as SRT text.
OneBlockText ==
    <<"1", "\n", "0", "0", ":", "0", "0", ":", "0", "1", ",", "0", "0", "0",
    " ", "-", "-", ">", " ", "0", "0", ":", "0", "0", ":", "0", "4", ",",
    "0", "0", "0", "\n", "X", "\n", "\n">>

\* The writer was given, in one Write, the text of ConvertToSRT, and the
\* call returns an error exactly when that Write reported one.
OneWriteOfFormatted ==
    pc = "writerReturned" \/ Created =>
      /\ sink = <<Formatted>>
      /\ records = <<>> => sink = << <<>> >>
      /\ records = <<[StartTime |-> 1000, EndTime |-> 4000,
                      Text |-> <<"X">>]>> => sink = <<OneBlockText>>
      /\ wret # NoErr <=> WriteReported
      /\ wret # NoErr =>
           /\ wret.chain[1] = "failed to write SRT content"
           /\ Len(wret.chain) = 2

\* C19 as stated: WriteToFile on a creatable path always leaves a file
\* holding exactly the text.
C19_FileAlwaysHoldsText ==
    /\ OneWriteOfFormatted
    /\ Created => Entry(disk, path) = File(Formatted)

\* C19: WriteToWriter hands the writer, in a single Write, exactly the text
\* ConvertToSRT returns for the records (the empty text for the empty list)
\* and returns an error if and only if that Write reports one.  WriteToFile
\* on a creatable path leaves a file holding exactly that text when it
\* returns no error; when the Write fails the file, created or emptied
\* already, holds a beginning of the text and not all of it.
C19_FileHoldsTextOnSuccess ==
    /\ OneWriteOfFormatted
    /\ Created =>
         /\ Entry(disk, path).kind = "file"
         /\ wret = NoErr => Entry(disk, path) = File(Formatted)
         /\ wret # NoErr =>
              /\ IsPrefix(Entry(disk, path).text, Formatted)
              /\ Entry(disk, path).text # Formatted

\* WriteToFile has returned without error for a file that was there before
\* the call, which now holds the text of two records.
C19_Witness ==
    /\ pc = "writeReturned"
    /\ cli.step = "off"
    /\ path = OSrt
    /\ Entry(disk, ASrt) = File(OldText)
    /\ Len(records) = 2
    /\ wret = NoErr
    /\ Entry(disk, path) = File(Formatted)
    /\ sink = <<Formatted>>

(***************************************************************************)
(* C20                                                                     *)
(***************************************************************************)
\* The path ends in ".sbv", in whatever case.
EndsInSbv(p) ==
    /\ Len(p) >= 4
    /\ p[Len(p) - 3] = "."
    /\ p[Len(p) - 2] \in {"s", "S"}
    /\ p[Len(p) - 1] \in {"b", "B"}
    /\ p[Len(p)] \in {"v", "V"}

\* validateInputFile has returned in the command.
Validated == cli.step \notin {"off", "start"}

\* The error validateInputFile returned, as convertSbvToSrt wrapped it.
ValidationFailed(msg) ==
    /\ cli.step = "done"
    /\ cli.err # NoErr
    /\ cli.err.chain[1] = "input validation failed"
    /\ cli.err.chain[2] = msg

\* convertSbvToSrt went on, or returned the error of a later step.
ValidationPassed ==
    ~(cli.err # NoErr /\ cli.err.chain[1] = "input validation failed")

\* C20: validateInputFile reports the first failing check of: the path is
\* empty ('input file path cannot be empty'); nothing exists at the path
\* ('input file does not exist', with the path); the path does not end in
\* .sbv in any case ('input file must have .sbv extension'); the file
\* cannot be opened ('cannot read input file'); and returns no error for an
\* existing, openable .sbv path, having opened and closed it.  A missing
\* file with a wrong extension gets 'does not exist'.
C20_ChecksInOrder ==
    Validated =>
      /\ cli.input = <<>> =>
           ValidationFailed("input file path cannot be empty")
      /\ cli.input # <<>> /\ cli.input \notin DOMAIN disk =>
           /\ ValidationFailed("input file does not exist")
           /\ cli.err.arg = cli.input
      /\ cli.input \in DOMAIN disk /\ ~EndsInSbv(cli.input) =>
           ValidationFailed("input file must have .sbv extension")
      /\ cli.input \in DOMAIN disk /\ EndsInSbv(cli.input) =>
           IF disk[cli.input].kind = "file" /\ ~disk[cli.input].perm
           THEN /\ ValidationFailed("cannot read input file")
                /\ Cause(cli.err) = EACCES
           ELSE /\ ValidationPassed
                /\ fds[1].path = cli.input
                /\ fds[1].closes = 1
      /\ cli.input = NoTxt => ValidationFailed("input file does not exist")
      /\ cli.input = ATxt =>
           /\ ValidationFailed("input file must have .sbv extension")
           /\ cli.err.arg = <<".", "t", "x", "t">>
      /\ cli.input = BareName =>
           /\ ValidationFailed("input file must have .sbv extension")
           /\ cli.err.arg = <<>>
      /\ cli.input \in {ASbv, UpperSbv, SubSbv, DirSbv} => ValidationPassed

\* The command was given a missing file with a wrong extension, and
\* returned that it does not exist.
C20_Witness ==
    /\ cli.input = NoTxt
    /\ cli.input \notin DOMAIN disk
    /\ ~EndsInSbv(cli.input)
    /\ ValidationFailed("input file does not exist")

(***************************************************************************)
(* C21                                                                     *)
(***************************************************************************)
\* The place of the last c in the path p, 0 when there is none.
LastPlace(p, c) ==
    LET places == {k \in 1..Len(p) : p[k] = c}
    IN  IF places = {} THEN 0
        ELSE CHOOSE k \in places : \A m \in places : m <= k

\* The path ends in ".srt", in whatever case.
EndsInSrt(p) ==
    /\ Len(p) >= 4
    /\ p[Len(p) - 3] = "."
    /\ p[Len(p) - 2] \in {"s", "S"}
    /\ p[Len(p) - 1] \in {"r", "R"}
    /\ p[Len(p)] \in {"t", "T"}

\* What stands before the last separator of a path: its directory part.
Before(p, place) == SubSeq(p, 1, place - 1)

\* The input path with ".srt" in the place of what follows the last dot of
\* its last element.
Renamed(input) ==
    (IF LastPlace(input, ".") > LastPlace(input, "/")
     THEN Before(input, LastPlace(input, "."))
     ELSE input) \o <<".", "s", "r", "t">>

\* The directory of the output path is there, or the path has none.
DirectoryThere(d, output) ==
    \/ LastPlace(output, "/") = 0
    \/ Before(output, LastPlace(output, "/")) \in DOMAIN d

\* What determineOutputPath is to return for its arguments.
OutputPathFor(d, input, output, o) ==
    /\ output = <<>> => o = [path |-> Renamed(input), err |-> NoErr]
    /\ output # <<>> /\ ~DirectoryThere(d, output) =>
         /\ o.path = <<>>
         /\ o.err = [chain |-> <<"output directory does not exist">>,
                     arg |-> Before(output, LastPlace(output, "/"))]
    /\ output # <<>> /\ DirectoryThere(d, output) /\ ~EndsInSrt(output) =>
         /\ o.path = <<>>
         /\ o.err.chain = <<"output file must have .srt extension">>
    /\ output # <<>> /\ DirectoryThere(d, output) /\ EndsInSrt(output) =>
         o = [path |-> output, err |-> NoErr]

\* The command is past determineOutputPath.
Determined == cli.step \in {"determined", "parse", "write"}

\* C21: determineOutputPath, called by itself or by the command: with an
\* empty output argument it returns, without error, the input path with its
\* last extension replaced by ".srt" and its directory part kept; with an
\* output argument it returns the argument unchanged when its directory is
\* "." or exists and it ends in ".srt" in any case, 'output directory does
\* not exist' when the directory is missing, whatever the extension, and
\* 'output file must have .srt extension' otherwise.
C21_OutputPath ==
    /\ pc = "determinedPath" =>
         /\ OutputPathFor(disk, outCall.input, outCall.output,
                          [path |-> outCall.path, err |-> outCall.err])
         /\ outCall.output = <<>> =>
              /\ outCall.input = SubSbv =>
                   outCall.path = <<"s", "u", "b", "/", "a", ".", "s", "r",
                                    "t">>
              /\ outCall.input \in {ASbv, ATxt, BareName} =>
                   outCall.path = ASrt
              /\ outCall.input = UpperSbv =>
                   outCall.path = <<"A", ".", "s", "r", "t">>
         /\ outCall.output \in {OSrt, UpperSrt, SubSrt, LockedSrt} =>
              outCall.path = outCall.output /\ outCall.err = NoErr
    /\ Determined =>
         OutputPathFor(disk, cli.input, cli.output,
                       [path |-> cli.outputPath, err |-> NoErr])
    /\ cli.step = "done" /\ cli.err # NoErr
            /\ cli.err.chain[1] = "output path determination failed" =>
         OutputPathFor(disk, cli.input, cli.output,
                       [path |-> <<>>,
                        err |-> [chain |-> Tail(cli.err.chain),
                                 arg |-> cli.err.arg]])
    /\ cli.step = "done" /\ ValidationPassed
            /\ ~(DirectoryThere(disk, cli.output) /\ EndsInSrt(cli.output))
            /\ cli.output # <<>> =>
         /\ cli.err # NoErr
         /\ cli.err.chain[1] = "output path determination failed"

\* determineOutputPath was given an output path with a missing directory
\* and a wrong extension, and returned that the directory does not exist.
C21_Witness ==
    /\ pc = "determinedPath"
    /\ outCall.output = NoDirTxt
    /\ ~DirectoryThere(disk, outCall.output)
    /\ ~EndsInSrt(outCall.output)
    /\ outCall.err # NoErr
    /\ outCall.err.chain = <<"output directory does not exist">>
    /\ outCall.path = <<>>

(***************************************************************************)
(* C22                                                                     *)
(***************************************************************************)
\* The second timestamp line of the spec's example.
SecondStamp ==
    <<"0", ":", "0", "0", ":", "0", "5", ".", "5", "0", "0", ",", "0", ":",
      "0", "0", ":", "0", "8", ".", "2", "0", "0">>

\* The timestamp-shaped lines that lie in the text of a block.
ShapedInside(r) ==
    {k \in 1..Len(r) : Shaped(r[k]) /\ ~OutsideBlock(r, k)}

ShapedOutside(r) ==
    {k \in 1..Len(r) : Shaped(r[k]) /\ OutsideBlock(r, k)}

\* C22: a valid timestamp line followed, with no blank line between, by a
\* timestamp-shaped line (valid or not) and more lines parses to ONE record,
\* whose text is all the lines after the first, the shaped one included,
\* up to the blank line or the end; the shaped line is not validated: an
\* invalid one causes no error, a valid one starts no record.  In every
\* parse the records are as many as the shaped lines outside blocks, and an
\* error comes from such a line only.
C22_ShapedLineInBlockIsText ==
    /\ (Parsed /\ reader \in Unseparated) =>
           /\ ret.err = NoErr
           /\ ret.subs =
                <<[StartTime |-> 1000, EndTime |-> 4000,
                   Text |-> LinesAsText(
                              [k \in 1..(Len(reader) - 1) |->
                                 Stripped(reader[k + 1])])]>>
           /\ Len(reader) = 3 /\ reader[2] = SecondStamp =>
                ret.subs[1].Text =
                    SecondStamp \o <<NL, "W", "o", "r", "l", "d">>
    /\ (Parsed /\ ret.err = NoErr) =>
           /\ Len(ret.subs) = Cardinality(ShapedOutside(reader))
           /\ \A k \in ShapedOutside(reader) : ValidPair(Stripped(reader[k]))
    /\ (Parsed /\ ret.err # NoErr) =>
           \E k \in ShapedOutside(reader) : ~ValidPair(Stripped(reader[k]))

\* Two blocks written with no blank line between them have been parsed to
\* one record.
C22_Witness ==
    /\ Parsed
    /\ reader \in Unseparated
    /\ Len(reader) = 3
    /\ reader[2] = SecondStamp
    /\ ShapedInside(reader) = {2}
    /\ Len(ret.subs) = 1
    /\ ret.err = NoErr
    /\ ret.subs[1].Text = SecondStamp \o <<NL, "W", "o", "r", "l", "d">>

(***************************************************************************)
(* C23                                                                     *)
(***************************************************************************)
\* The lines a record was made of, when the scan went from index a to b:
\* its timestamp line and its text lines.
LinesOfRecord(a, b) == (a + 1)..b

\* C23: every iteration of the scan of ParseFromReader moves the index to a
\* greater one, at most the number of lines (the index a block is left at
\* is greater than the index of its timestamp line); the record appended in
\* an iteration is made of the lines between the two indexes, so that no
\* line is in two records and the records are at most as many as the lines
\* passed; the scan is left only by the return, with the records and no
\* error at the end of the lines, or with an error and no records.  The
\* index never passes the number of lines, so the iterations are at most as
\* many as the lines.
C23_ScanTerminates ==
    /\ [][pc = "scan" =>
            /\ pc' \in {"scan", "returned"}
            /\ pc' = "scan" =>
                 /\ i' > i
                 /\ i' <= Len(lines)
                 /\ lines' = lines
                 /\ Len(subtitles') - Len(subtitles) \in {0, 1}
                 /\ Len(subtitles') = Len(subtitles) + 1 =>
                      /\ Shaped(lines[i + 1])
                      /\ \A k \in LinesOfRecord(i + 1, i') : lines[k] # <<>>
                      /\ subtitles'[Len(subtitles')].Text =
                           LinesAsText(SubSeq(lines, i + 2, i'))
                      /\ SubSeq(subtitles', 1, Len(subtitles)) = subtitles
            /\ pc' = "returned" =>
                 \/ i >= Len(lines) /\ ret' = [subs |-> subtitles,
                                               err |-> NoErr]
                 \/ i < Len(lines) /\ ret'.subs = <<>> /\ ret'.err # NoErr
       ]_vars
    /\ [](pc = "scan" => i \in 0..Len(lines) /\ Len(subtitles) <= i)
    /\ [](Parsed => \/ ret.err = NoErr /\ i = Len(lines)
                    \/ ret.err # NoErr /\ i < Len(lines) /\ ret.subs = <<>>)

\* The scan has passed four lines, two blocks among them, and returned.
C23_Witness ==
    /\ Parsed
    /\ Len(lines) = MaxLines
    /\ i = Len(lines)
    /\ Len(ret.subs) = 2
    /\ ret.err = NoErr

(***************************************************************************)
(* C24                                                                     *)
(***************************************************************************)
\* A time of day in milliseconds: 0:00:00.000 to 23:59:59.999.
TimeOfDay(t) == t \in 0..86399999

TimesOfDay(subs) ==
    \A k \in 1..Len(subs) :
        TimeOfDay(subs[k].StartTime) /\ TimeOfDay(subs[k].EndTime)

\* The line "23:59:59.999,1:30:15.500".
LastInstantLine ==
    <<"2", "3", ":", "5", "9", ":", "5", "9", ".", "9", "9", "9", ",", "1",
      ":", "3", "0", ":", "1", "5", ".", "5", "0", "0">>

\* C24: every record ParseFromReader or ParseFromFile holds or returns has
\* its start and its end in 0 .. 86,399,999 ms; a line whose eight fields
\* are integers in their ranges is accepted whatever the order of its two
\* times, and its record has the two times as written, also when the end
\* is before the start or equal to it.
C24_TimesInRangeUnordered ==
    /\ TimesOfDay(subtitles)
    /\ TimesOfDay(ret.subs)
    /\ TimesOfDay(fret.subs)
    /\ OneRichLine =>
         LET d == DescOf(reader[1])
         IN  (AllInt(d.first) /\ AllInt(d.second)
              /\ InRange(d.first) /\ InRange(d.second)) =>
                 ret = [subs |-> <<[StartTime |-> TimeValue(d.first),
                                    EndTime |-> TimeValue(d.second),
                                    Text |-> <<>>]>>,
                        err |-> NoErr]
    /\ (Parsed /\ reader = <<LastInstantLine>>) =>
         ret.subs = <<[StartTime |-> 86399999, EndTime |-> 5415500,
                       Text |-> <<>>]>>
    /\ (Parsed /\ reader = <<LineText([first |-> FixedTime,
                                      second |-> FixedTime])>>) =>
         ret.subs = <<[StartTime |-> 5415500, EndTime |-> 5415500,
                       Text |-> <<>>]>>

\* The line "23:59:59.999,1:30:15.500" has been parsed: its start is the
\* last instant of the range, its end is before its start.
C24_Witness ==
    /\ Parsed
    /\ reader = <<LastInstantLine>>
    /\ Len(ret.subs) = 1
    /\ ret.subs[1].StartTime = 86399999
    /\ ret.subs[1].EndTime < ret.subs[1].StartTime

(***************************************************************************)
(* C25                                                                     *)
(***************************************************************************)
\* The digits between the dot and the comma of a line of ShortFractions.
AfterDot(l) ==
    SubSeq(l, LastPlace(SubSeq(l, 1, LastPlace(l, ",")), ".") + 1,
           LastPlace(l, ",") - 1)

\* The digits read as a number: each digit counts ten times the next.
RECURSIVE AsInteger(_)
AsInteger(digits) ==
    IF digits = <<>> THEN 0
    ELSE 10 * AsInteger(SubSeq(digits, 1, Len(digits) - 1))
         + (CHOOSE n \in 0..9 :
               <<"0", "1", "2", "3", "4", "5", "6", "7", "8", "9">>[n + 1]
                   = digits[Len(digits)])

\* The line of ShortFractions the reader holds.
ShortFraction == CHOOSE f \in ShortFractions : reader = <<f.txt>>

\* C25: the digits after the '.' of a time value are read as an integer
\* number of milliseconds, whatever their count, and not as a decimal
\* fraction of a second: "0:00:01.5" is 1 s + 5 ms, "0:00:01.50" is
\* 1 s + 50 ms, "0:00:01.05" and "0:00:01.005" are 1 s + 5 ms; such lines
\* are accepted without error.
C25_FractionIsInteger ==
    (Parsed /\ \E f \in ShortFractions : reader = <<f.txt>>) =>
        /\ ret.err = NoErr
        /\ Len(ret.subs) = 1
        /\ ret.subs[1].StartTime = ShortFraction.start
        /\ ret.subs[1].StartTime = 1000 + AsInteger(AfterDot(reader[1]))
        /\ ret.subs[1].EndTime = 4000
        /\ AfterDot(reader[1]) = <<"5">> => ret.subs[1].StartTime = 1005
        /\ AfterDot(reader[1]) = <<"5", "0">> =>
             ret.subs[1].StartTime = 1050

\* The line "0:00:01.5,0:00:04.000" has been parsed: its start is 1005 ms,
\* not 1500 ms.
C25_Witness ==
    /\ Parsed
    /\ Len(reader) = 1
    /\ \E f \in ShortFractions : reader = <<f.txt>>
    /\ AfterDot(reader[1]) = <<"5">>
    /\ ret.err = NoErr
    /\ ret.subs[1].StartTime = 1005

(***************************************************************************)
(* C26                                                                     *)
(***************************************************************************)
\* The timestamp lines that start a block without text: the next line is
\* blank, or there is none.
Textless(r) ==
    {k \in ShapedOutside(r) : k = Len(r) \/ BlankLine(r[k + 1])}

\* The place among the records of the block that line k starts.
RecordOf(r, k) == Cardinality({j \in ShapedOutside(r) : j <= k})

\* The first timestamp line of the spec's example.
FirstStamp ==
    <<"0", ":", "0", "0", ":", "0", "1", ".", "0", "0", "0", ",", "0", ":",
      "0", "0", ":", "0", "4", ".", "0", "0", "0">>

\* The record {1 s, 4 s, ""} as SRT text.
TextlessBlock ==
    <<"1", "\n", "0", "0", ":", "0", "0", ":", "0", "1", ",", "0", "0", "0",
    " ", "-", "-", ">", " ", "0", "0", ":", "0", "0", ":", "0", "4", ",",
    "0", "0", "0", "\n", "\n", "\n">>

\* C26: a valid timestamp line directly followed by a blank line or by the
\* end of the input gives a record with the empty text, in its place among
\* the records (none is dropped); in the SRT text its block is its number
\* in the sequence, a newline, the line of the two times, a newline, and
\* two newlines, and the blocks after it keep their numbers.
C26_TextlessBlockKept ==
    /\ (Parsed /\ ret.err = NoErr) =>
         /\ Len(ret.subs) = Cardinality(ShapedOutside(reader))
         /\ \A k \in Textless(reader) :
               ret.subs[RecordOf(reader, k)].Text = <<>>
    /\ (Parsed /\ reader = <<FirstStamp>>) =>
         ret = [subs |-> <<[StartTime |-> 1000, EndTime |-> 4000,
                            Text |-> <<>>]>>,
                err |-> NoErr]
    /\ (pc = "converted" /\ reader # <<>>) =>
         /\ records = ret.subs
         /\ \A k \in Textless(reader) :
               LET n == RecordOf(reader, k)
                   p == BlockStart(records, n)
               IN  /\ NumberAt(srt, p, NumWidth(n)) = n
                   /\ At(srt, p + NumWidth(n)) = NL
                   /\ SrtTimeAt(srt, StartPos(records, n)) =
                          records[n].StartTime
                   /\ Seg(srt, StartPos(records, n) + 12, 5) = Arrow
                   /\ SrtTimeAt(srt, EndPos(records, n)) = records[n].EndTime
                   /\ Seg(srt, EndPos(records, n) + 12, 3) = <<NL, NL, NL>>
                   /\ BlockStart(records, n + 1) = EndPos(records, n) + 15
                   /\ n < Len(records) =>
                        NumberAt(srt, BlockStart(records, n + 1),
                                 NumWidth(n + 1)) = n + 1
                   /\ n = Len(records) => Len(srt) = EndPos(records, n) + 14
         /\ reader = <<FirstStamp>> => srt = TextlessBlock

\* A timestamp line followed by a blank line, and then a block with text:
\* two records have been written, the first with the empty text.
C26_Witness ==
    /\ pc = "converted"
    /\ Len(reader) >= 3
    /\ 1 \in Textless(reader)
    /\ BlankLine(reader[2])
    /\ Len(records) = 2
    /\ records[1].Text = <<>>
    /\ records[2].Text # <<>>
    /\ Seg(srt, 1, Len(TextlessBlock)) = TextlessBlock

====
